---- MODULE Spec2Model ----
(***************************************************************************)
(* Verification model of aarg (dionysius/aarg): the download coordinator,  *)
(* the trusted store, the signature verifier, the feed adapters' chain of  *)
(* trust, the composer's index/pool emission and the Repository object.    *)
(*                                                                         *)
(* Each subsystem has its own specification (SpecDL, SpecTrust, ...) over  *)
(* its own variables; the variables of the other subsystems stay at their  *)
(* initial value under that specification.                                 *)
(***************************************************************************)
EXTENDS Integers, Sequences, FiniteSets, TLC

VARIABLES
    \* ---- download coordinator (internal/common/downloader.go) ----
    inflight,     \* Downloader.inflight: destination -> owner of the stored waiter, or NoOwner
    waiters,      \* the downloadWaiter each caller allocated: url, checksum, done, result, err
    dlpc,         \* position of each caller inside downloadWithDedup
    dlreq,        \* the DownloadRequest of each caller
    joined,       \* the existing waiter a caller loaded from inflight (NoOwner if none)
    dlret,        \* what downloadWithDedup returned to each caller
    transfers,    \* number of HTTP transfers each caller performed in Downloader.download
    \* ---- EnsureHardlink (package common) ----
    trustedFs,      \* the trusted directory tree: path -> inode of the file there, or NoInode
    hardlinkMutex,  \* holder of the process-wide hardlinkMutex, or NoThread
    hlpc,           \* position of each goroutine inside EnsureHardlink
    hlarg,          \* its arguments: src, dst
    hlDstInfo,      \* its local dstInfo (inode seen by os.Lstat(dst))
    hlret,          \* the error it returned ("nil" for success)
    \* ---- Storage.LinkFilesToTrusted / writeRedirectMap (package common) ----
    ltStorage,      \* the Storage instance (of its feed task) each goroutine calls
    redirectsFile,  \* scope -> content of <trustedDir>/redirects.yaml (relative path -> suffix)
    redirectMapMu,  \* Storage instance -> holder of its redirectMapMu, or NoLinker
    ltpc,           \* position of each goroutine inside LinkFilesToTrusted
    ltfiles,        \* its argument: files
    ltIdx,          \* index of the file the range loop is at
    seen,           \* its local map seen: relative path -> hash
    redirects,      \* its local map redirects: relative path -> redirect suffix
    ltMerged,       \* writeRedirectMap's local existingRedirects after maps.Copy
    ltret,          \* the error it returned ("nil" for success)
    \* ---- debext.Verifier ----
    verifier,       \* the Verifier: AcceptUnsigned, IgnoreSignatures, keyring of the pgp backend
    vcall,          \* the last VerifyAndClear call: the file read and the backend's faults
    vres,           \* what it returned: rc (content of the reader), keys, err
    \* ---- debext.Repository, built twice from the same kept packages ----
    kept,           \* the packages to insert, as <<package, distribution, component>>
    pending,        \* build -> the entries its iteration has not reached yet
    packages,       \* build -> Repository.packages: <<distribution, component>> -> set of packages
    latest,         \* build -> Repository.latest: <<name, distribution, architecture>> -> package
    lastCall,       \* the last AddPackage call: build, entry, the latest entry it found, err
    \* ---- composer: generateDistribution (internal/log/handler.go) ----
    options,        \* Apt.options: PoolMode, Repository.Packages.Source and .Debug
    cpackages,      \* component -> the PackageList of the Repository for the distribution
    cpos,           \* component -> index of the architecture its goroutine is at
    cphase,         \* component -> "index" (before generatePackageIndex) or "link"
    indexFiles,     \* stanzas written to Packages/Sources: component, architecture, stanza
    targetTree,     \* paths under options.Target that exist as hardlinks
    \* ---- feed adapters: one package file on its way to the trusted store ----
    feed,           \* FeedOptions: Type, NoChanges
    fverifier,      \* the Verifier of the feed's repository
    remote,         \* what the host serves: anchor, index, file, advertised digests
    downloads,      \* the download directory: path -> content, or NoFile
    fetch,          \* the task: position, anchor result, declared hashes, error
    trustedStore,    \* the file in the trusted store with the hash of its FileForTrust
    \* ---- retention engine: two RetentionFilters given the same items ----
    efilter,
    epending,
    eitems,
    eresult,
    \* ---- retention collector: GenericRetentionCollector ----
    cfilters,
    cmu,
    ccalls,
    cpc,
    cfilter,
    creturned,
    ccreated,
    ckept,
    \* ---- Apt.Compose: the steps of one invocation ----
    zPoolMode,
    zfails,
    zpc,
    zgroupErr,
    ztrace,
    zret,
    \* ---- Application.Generate: staging directories and the public symlink ----
    gKeepLast,
    gstaging,
    gpublic,
    gtmpSymlink,
    gtimestamp,
    gpc,
    gerr,
    gret,
    \* ---- main worker pool under Application.Fetch ----
    pfeeds,
    pqueued,
    pwaiting,
    prunning,
    pdone,
    \* ---- Context of the download coordinator ----
    dlctx,
    dlatCancel,
    \* ---- Release-page feed ----
    ghpc,
    ghpage,
    releaseTasks,
    keptChanges,
    ghwalk,
    fileTasks,
    ghseen,
    fileResults,
    downloadedFiles,
    ghdownloaded,
    ghpromoted,
    gherr,
    \* ---- Distribution generation ----
    distTask,
    compTask,
    operating,
    finishedOps,
    \* ---- Download pool ----
    wrequests,
    wqueued,
    wwaiting,
    winner,
    wrunning,
    wfetched,
    wdecompress,
    wdone

dlVars == <<inflight, waiters, dlpc, dlreq, joined, dlret, transfers>>
hlVars == <<trustedFs, hardlinkMutex, hlpc, hlarg, hlDstInfo, hlret>>

ltVars == <<ltStorage, redirectsFile, redirectMapMu, ltpc, ltfiles, ltIdx, seen, redirects,
            ltMerged, ltret>>

vVars == <<verifier, vcall, vres>>
rVars == <<kept, pending, packages, latest, lastCall>>
cVars == <<options, cpackages, cpos, cphase, indexFiles, targetTree>>
fVars == <<feed, fverifier, remote, downloads, fetch, trustedStore>>
eVars == <<efilter, epending, eitems, eresult>>
kVars == <<cfilters, cmu, ccalls, cpc, cfilter, creturned, ccreated, ckept>>
zVars == <<zPoolMode, zfails, zpc, zgroupErr, ztrace, zret>>
gVars == <<gKeepLast, gstaging, gpublic, gtmpSymlink, gtimestamp, gpc, gerr, gret>>
pVars == <<pfeeds, pqueued, pwaiting, prunning, pdone>>
xVars == <<dlctx, dlatCancel>>
hVars == <<ghpc, ghpage, releaseTasks, keptChanges, ghwalk, fileTasks, ghseen, fileResults, downloadedFiles, ghdownloaded, ghpromoted, gherr>>
nVars == <<distTask, compTask, operating, finishedOps>>
wVars == <<wrequests, wqueued, wwaiting, winner, wrunning, wfetched, wdecompress, wdone>>

vars == <<dlVars, hlVars, ltVars, vVars, rVars, cVars, fVars, eVars, kVars, zVars, gVars, pVars, xVars, hVars, nVars, wVars>>
notDL == <<hlVars, ltVars, vVars, rVars, cVars, fVars, eVars, kVars, zVars, gVars, pVars, xVars, hVars, nVars, wVars>>
notHL == <<dlVars, ltVars, vVars, rVars, cVars, fVars, eVars, kVars, zVars, gVars, pVars, xVars, hVars, nVars, wVars>>
notLT == <<dlVars, hardlinkMutex, hlpc, hlarg, hlDstInfo, hlret, vVars, rVars, cVars, fVars, eVars, kVars, zVars, gVars, pVars, xVars, hVars, nVars, wVars>>
notV == <<dlVars, hlVars, ltVars, rVars, cVars, fVars, eVars, kVars, zVars, gVars, pVars, xVars, hVars, nVars, wVars>>
notR == <<dlVars, hlVars, ltVars, vVars, cVars, fVars, eVars, kVars, zVars, gVars, pVars, xVars, hVars, nVars, wVars>>
notC == <<dlVars, hlVars, ltVars, vVars, rVars, fVars, eVars, kVars, zVars, gVars, pVars, xVars, hVars, nVars, wVars>>
notF == <<dlVars, hlVars, ltVars, vVars, rVars, cVars, eVars, kVars, zVars, gVars, pVars, xVars, hVars, nVars, wVars>>
notE == <<dlVars, hlVars, ltVars, vVars, rVars, cVars, fVars, kVars, zVars, gVars, pVars, xVars, hVars, nVars, wVars>>
notK == <<dlVars, hlVars, ltVars, vVars, rVars, cVars, fVars, eVars, zVars, gVars, pVars, xVars, hVars, nVars, wVars>>
notZ == <<dlVars, hlVars, ltVars, vVars, rVars, cVars, fVars, eVars, kVars, gVars, pVars, xVars, hVars, nVars, wVars>>
notG == <<dlVars, hlVars, ltVars, vVars, rVars, cVars, fVars, eVars, kVars, zVars, pVars, xVars, hVars, nVars, wVars>>
notP == <<dlVars, hlVars, ltVars, vVars, rVars, cVars, fVars, eVars, kVars, zVars, gVars, xVars, hVars, nVars, wVars>>
notX == <<dlVars, hlVars, ltVars, vVars, rVars, cVars, fVars, eVars, kVars, zVars, gVars, pVars, hVars, nVars, wVars>>
notH == <<dlVars, hlVars, ltVars, vVars, rVars, cVars, fVars, eVars, kVars, zVars, gVars, pVars, xVars, nVars, wVars>>
notN == <<dlVars, hlVars, ltVars, vVars, rVars, cVars, fVars, eVars, kVars, zVars, gVars, pVars, xVars, hVars, wVars>>
notW == <<dlVars, hlVars, ltVars, vVars, rVars, cVars, fVars, eVars, kVars, zVars, gVars, pVars, xVars, hVars, nVars>>

(***************************************************************************)
(* Download coordinator                                                    *)
(***************************************************************************)

\* Bounds of the download model.
MaxCallers == 2

Callers == 1..MaxCallers
NoOwner == 0
URLs == {"u1", "u2"}
NoChecksum == ""
Checksums == {NoChecksum, "h1", "h2"}
Destinations == {"d1", "d2"}

DownloadRequests == [URL : URLs, Destination : Destinations, Checksum : Checksums]
NoRequest == [URL |-> "", Destination |-> "", Checksum |-> NoChecksum]

\* Return values of downloadWithDedup: (result, err).
NoReturn == [kind |-> "none", by |-> NoOwner]
Ok(c) == [kind |-> "ok", by |-> c]                  \* DownloadResult of owner c's download
DownloadErr(c) == [kind |-> "dlerr", by |-> c]      \* error of owner c's download
MkdirErr(c) == [kind |-> "mkdirerr", by |-> c]      \* os.MkdirAll error of owner c
ChecksumConflict == [kind |-> "checksum conflict", by |-> NoOwner]
URLConflict == [kind |-> "URL conflict", by |-> NoOwner]

\* waiter := &downloadWaiter{done: make(chan struct{}), url: req.URL, checksum: req.Checksum}
NewWaiter(req) ==
    [url |-> req.URL, checksum |-> req.Checksum, done |-> FALSE, outcome |-> NoReturn]
NoWaiter == [url |-> "", checksum |-> NoChecksum, done |-> FALSE, outcome |-> NoReturn]

InitDL ==
    /\ inflight = [d \in Destinations |-> NoOwner]
    /\ waiters = [c \in Callers |-> NoWaiter]
    /\ dlpc = [c \in Callers |-> "idle"]
    /\ dlreq = [c \in Callers |-> NoRequest]
    /\ joined = [c \in Callers |-> NoOwner]
    /\ dlret = [c \in Callers |-> NoReturn]
    /\ transfers = [c \in Callers |-> 0]

IdleDL == InitDL

\* A faulty registration that stores unconditionally (Store instead of LoadOrStore).
LoadedNever(d) == FALSE

\* m.inflight.LoadOrStore(req.Destination, waiter): the "loaded" result.
Loaded(d) == inflight[d] # NoOwner

\* The consistency check of a request against the waiter found in flight:
\*   if req.Checksum != "" && req.Checksum != existingWaiter.checksum  -> checksum conflict
\*   else if req.URL != existingWaiter.url                             -> URL conflict
CollisionCheck(req, existing) ==
    IF req.Checksum # NoChecksum /\ req.Checksum # existing.checksum
    THEN ChecksumConflict
    ELSE IF req.URL # existing.url
         THEN URLConflict
         ELSE NoReturn

\* downloadWithDedup, first statement: allocate a waiter and LoadOrStore it.
Submit(c, req) ==
    /\ dlpc[c] = "idle"
    /\ dlreq' = [dlreq EXCEPT ![c] = req]
    /\ IF Loaded(req.Destination)
       THEN /\ joined' = [joined EXCEPT ![c] = inflight[req.Destination]]
            /\ dlpc' = [dlpc EXCEPT ![c] = "check"]
            /\ UNCHANGED <<inflight, waiters>>
       ELSE /\ inflight' = [inflight EXCEPT ![req.Destination] = c]
            /\ waiters' = [waiters EXCEPT ![c] = NewWaiter(req)]
            /\ dlpc' = [dlpc EXCEPT ![c] = "mkdir"]
            /\ UNCHANGED joined
    /\ UNCHANGED <<dlret, transfers>>
    /\ UNCHANGED notDL

\* if loaded: validate consistency; a conflict returns at once, before any wait.
CheckCollision(c) ==
    /\ dlpc[c] = "check"
    /\ LET r == CollisionCheck(dlreq[c], waiters[joined[c]])
       IN  IF r # NoReturn
           THEN /\ dlret' = [dlret EXCEPT ![c] = r]
                /\ dlpc' = [dlpc EXCEPT ![c] = "done"]
           ELSE /\ dlpc' = [dlpc EXCEPT ![c] = "wait"]
                /\ UNCHANGED dlret
    /\ UNCHANGED <<inflight, waiters, dlreq, joined, transfers>>
    /\ UNCHANGED notDL

\* <-existingWaiter.done; return existingWaiter.result, existingWaiter.err
WaitDone(c) ==
    /\ dlpc[c] = "wait"
    /\ waiters[joined[c]].done
    /\ dlret' = [dlret EXCEPT ![c] = waiters[joined[c]].outcome]
    /\ dlpc' = [dlpc EXCEPT ![c] = "done"]
    /\ UNCHANGED <<inflight, waiters, dlreq, joined, transfers>>
    /\ UNCHANGED notDL

\* os.MkdirAll(filepath.Dir(req.Destination)): on failure the owner stores the
\* error in its waiter and closes done; the Delete and the return follow.
MkdirAll(c) ==
    /\ dlpc[c] = "mkdir"
    /\ \/ /\ dlpc' = [dlpc EXCEPT ![c] = "download"]
          /\ UNCHANGED <<waiters, dlret>>
       \/ /\ waiters' = [waiters EXCEPT ![c].outcome = MkdirErr(c), ![c].done = TRUE]
          /\ dlret' = [dlret EXCEPT ![c] = MkdirErr(c)]
          /\ dlpc' = [dlpc EXCEPT ![c] = "faildelete"]
    /\ UNCHANGED <<inflight, dlreq, joined, transfers>>
    /\ UNCHANGED notDL

\* m.inflight.Delete(req.Destination); return nil, err   (MkdirAll failure path)
FailDelete(c) ==
    /\ dlpc[c] = "faildelete"
    /\ inflight' = [inflight EXCEPT ![dlreq[c].Destination] = NoOwner]
    /\ dlpc' = [dlpc EXCEPT ![c] = "done"]
    /\ UNCHANGED <<waiters, dlreq, joined, dlret, transfers>>
    /\ UNCHANGED notDL

\* result, err := m.download(ctx, req): one HTTP transfer, which succeeds or fails.
Download(c) ==
    /\ dlpc[c] = "download"
    /\ transfers' = [transfers EXCEPT ![c] = @ + 1]
    /\ \E r \in {Ok(c), DownloadErr(c)} : dlret' = [dlret EXCEPT ![c] = r]
    /\ dlpc' = [dlpc EXCEPT ![c] = "notify"]
    /\ UNCHANGED <<inflight, waiters, dlreq, joined>>
    /\ UNCHANGED notDL

\* waiter.result = result; waiter.err = err; close(waiter.done)
Notify(c) ==
    /\ dlpc[c] = "notify"
    /\ waiters' = [waiters EXCEPT ![c].outcome = dlret[c], ![c].done = TRUE]
    /\ dlpc' = [dlpc EXCEPT ![c] = "cleanup"]
    /\ UNCHANGED <<inflight, dlreq, joined, dlret, transfers>>
    /\ UNCHANGED notDL

\* deferred: m.inflight.Delete(req.Destination); then return result, err
Cleanup(c) ==
    /\ dlpc[c] = "cleanup"
    /\ inflight' = [inflight EXCEPT ![dlreq[c].Destination] = NoOwner]
    /\ dlpc' = [dlpc EXCEPT ![c] = "done"]
    /\ UNCHANGED <<waiters, dlreq, joined, dlret, transfers>>
    /\ UNCHANGED notDL

NextDL ==
    \/ \E c \in Callers, req \in DownloadRequests : Submit(c, req)
    \/ \E c \in Callers : CheckCollision(c)
    \/ \E c \in Callers : WaitDone(c)
    \/ \E c \in Callers : MkdirAll(c)
    \/ \E c \in Callers : FailDelete(c)
    \/ \E c \in Callers : Download(c)
    \/ \E c \in Callers : Notify(c)
    \/ \E c \in Callers : Cleanup(c)

\* ---- properties of the download coordinator ----

OwnerPositions == {"mkdir", "download", "notify", "cleanup", "faildelete"}
Conflicts == {ChecksumConflict, URLConflict}
IsOwner(c) == dlpc[c] # "idle" /\ joined[c] = NoOwner
IsFollower(c) == joined[c] # NoOwner
Returned(c) == dlpc[c] = "done"

Agrees(req, existing) ==
    IF req.Checksum # NoChecksum /\ existing.checksum # NoChecksum
    THEN req.Checksum = existing.checksum
    ELSE req.URL = existing.url

\* C7: a colliding request that agrees with the in-flight download (by
\* checksum when both carry one, otherwise by URL) shares its outcome; one that
\* disagrees returns a conflict error and never the other download's result.
C7_AgreeByChecksumOrURL ==
    \A c \in Callers :
        (IsFollower(c) /\ Returned(c)) =>
            IF Agrees(dlreq[c], waiters[joined[c]])
            THEN dlret[c] = waiters[joined[c]].outcome /\ dlret[c] \notin Conflicts
            ELSE dlret[c] \in Conflicts

\* The state of caller c's waiter, the entry it stores for its destination.
EntryState(c) ==
    IF waiters[c] = NoWaiter THEN "absent"
    ELSE IF ~waiters[c].done THEN "in-flight"
    ELSE IF waiters[c].outcome.kind = "ok" THEN "done" ELSE "error"

\* The state of destination d in m.inflight.
DestState(d) == IF inflight[d] = NoOwner THEN "absent" ELSE EntryState(inflight[d])

\* The moves of an entry, and the removal of a finished entry from the map
\* by the Delete of its owner.
EntryMoves == {<<"absent", "in-flight">>, <<"in-flight", "done">>, <<"in-flight", "error">>}
EntryRemoval == {<<"done", "absent">>, <<"error", "absent">>}

\* The steps of a request after its registration.
DedupStep ==
    \/ \E c \in Callers : CheckCollision(c)
    \/ \E c \in Callers : WaitDone(c)
    \/ \E c \in Callers : MkdirAll(c)
    \/ \E c \in Callers : FailDelete(c)
    \/ \E c \in Callers : Download(c)
    \/ \E c \in Callers : Notify(c)
    \/ \E c \in Callers : Cleanup(c)

\* C26: an entry only moves absent -> in-flight -> done or error and a
\* destination only gets an entry when it has none and loses it only when
\* the entry is finished; a destination has at most one owner at any time;
\* a caller waiting on an entry returns only when the entry is finished,
\* with its outcome, and every waiting caller does return, whether the
\* owner ends with success, a download error or a MkdirAll error.
C26_EntryLifecycle ==
    /\ [][\A c \in Callers :
            EntryState(c)' # EntryState(c) => <<EntryState(c), EntryState(c)'>> \in EntryMoves]_vars
    /\ [][\A d \in Destinations :
            DestState(d)' # DestState(d) =>
                <<DestState(d), DestState(d)'>> \in EntryMoves \cup EntryRemoval]_vars
    /\ [](\A c1, c2 \in Callers :
            (c1 # c2 /\ dlpc[c1] \in OwnerPositions /\ dlpc[c2] \in OwnerPositions)
                => dlreq[c1].Destination # dlreq[c2].Destination)
    /\ [](\A c \in Callers :
            (IsFollower(c) /\ Returned(c) /\ dlret[c] \notin Conflicts) =>
                /\ EntryState(joined[c]) \in {"done", "error"}
                /\ dlret[c] = waiters[joined[c]].outcome)
    /\ \A c \in Callers : (dlpc[c] = "wait") ~> Returned(c)

\* A caller that waited on an owner whose MkdirAll failed has returned that
\* error.
C26_Witness ==
    \E c \in Callers :
        /\ IsFollower(c) /\ Returned(c)
        /\ dlret[c] = MkdirErr(joined[c])
        /\ EntryState(joined[c]) = "error"

(***************************************************************************)
(* Trusted store: EnsureHardlink                                           *)
(***************************************************************************)

MaxThreads == 2

Threads == 1..MaxThreads
NoThread == 0

\* Files of the download cache, as <<directory, base name>>, and the inode and
\* content (SHA-256) each has; the path under "gone" does not exist.
CachePaths == {<<"a", "x.deb">>, <<"b", "x.deb">>}
MissingPath == <<"gone", "x.deb">>
NoInode == "none"
Inode(path) ==
    CASE path[1] = "a" -> "i1"
      [] path[1] = "b" -> "i2"
      [] OTHER -> NoInode
Inodes == {"i1", "i2"}
ContentHash(inode) == IF inode = "i1" THEN "h1" ELSE "h2"

\* Paths below the trusted directory: <<scope, distribution, base name>>.
Scopes == {"p1", "p2"}
Distributions == {"d1", "d2"}
TrustedPaths == Scopes \X Distributions \X {"x.deb"}

\* os.Lstat(p) succeeds; os.SameFile; os.Remove; os.Link on the trusted tree.
Exists(fs, p) == fs[p] # NoInode
SameFile(i1, i2) == i1 = i2
Remove(fs, p) == [fs EXCEPT ![p] = NoInode]
Link(fs, src, p) == [fs EXCEPT ![p] = Inode(src)]

IdleHL ==
    /\ trustedFs = [p \in TrustedPaths |-> NoInode]
    /\ hardlinkMutex = NoThread
    /\ hlpc = [t \in Threads |-> "idle"]
    /\ hlarg = [t \in Threads |-> <<MissingPath, <<"p1", "d1", "x.deb">> >>]
    /\ hlDstInfo = [t \in Threads |-> NoInode]
    /\ hlret = [t \in Threads |-> "none"]

\* The trusted tree may already hold files from earlier runs.
InitHL ==
    /\ trustedFs \in [TrustedPaths -> {NoInode, "i2"}]
    /\ trustedFs[<<"p2", "d2", "x.deb">>] = NoInode
    /\ hardlinkMutex = NoThread
    /\ hlpc = [t \in Threads |-> "idle"]
    /\ hlarg = [t \in Threads |-> <<MissingPath, <<"p1", "d1", "x.deb">> >>]
    /\ hlDstInfo = [t \in Threads |-> NoInode]
    /\ hlret = [t \in Threads |-> "none"]

\* A build without the lock: Lock() never blocks.
MutexIgnored == TRUE

\* hardlinkMutex can be acquired.
MutexFree == hardlinkMutex = NoThread

HlSrc(t) == hlarg[t][1]
HlDst(t) == hlarg[t][2]

\* A goroutine enters EnsureHardlink(src, dst).
HlCall(t, src, dst) ==
    /\ hlpc[t] = "idle"
    /\ hlarg' = [hlarg EXCEPT ![t] = <<src, dst>>]
    /\ hlpc' = [hlpc EXCEPT ![t] = "lock"]
    /\ UNCHANGED <<trustedFs, hardlinkMutex, hlDstInfo, hlret>>
    /\ UNCHANGED notHL

\* hardlinkMutex.Lock()
HlLock(t) ==
    /\ hlpc[t] = "lock"
    /\ MutexFree
    /\ hardlinkMutex' = t
    /\ hlpc' = [hlpc EXCEPT ![t] = "lstatdst"]
    /\ UNCHANGED <<trustedFs, hlarg, hlDstInfo, hlret>>
    /\ UNCHANGED notHL

\* dstInfo, err := os.Lstat(dst)
HlLstatDst(t) ==
    /\ hlpc[t] = "lstatdst"
    /\ IF Exists(trustedFs, HlDst(t))
       THEN /\ hlDstInfo' = [hlDstInfo EXCEPT ![t] = trustedFs[HlDst(t)]]
            /\ hlpc' = [hlpc EXCEPT ![t] = "lstatsrc"]
       ELSE /\ hlpc' = [hlpc EXCEPT ![t] = "link"]
            /\ UNCHANGED hlDstInfo
    /\ UNCHANGED <<trustedFs, hardlinkMutex, hlarg, hlret>>
    /\ UNCHANGED notHL

\* srcInfo, err := os.Lstat(src); if os.SameFile(srcInfo, dstInfo) return nil
HlLstatSrc(t) ==
    /\ hlpc[t] = "lstatsrc"
    /\ IF Inode(HlSrc(t)) = NoInode
       THEN /\ hlret' = [hlret EXCEPT ![t] = "ENOENT"]
            /\ hlpc' = [hlpc EXCEPT ![t] = "unlock"]
       ELSE IF SameFile(Inode(HlSrc(t)), hlDstInfo[t])
            THEN /\ hlret' = [hlret EXCEPT ![t] = "nil"]
                 /\ hlpc' = [hlpc EXCEPT ![t] = "unlock"]
            ELSE /\ hlpc' = [hlpc EXCEPT ![t] = "remove"]
                 /\ UNCHANGED hlret
    /\ UNCHANGED <<trustedFs, hardlinkMutex, hlarg, hlDstInfo>>
    /\ UNCHANGED notHL

\* if err := os.Remove(dst); err != nil { return err }
HlRemove(t) ==
    /\ hlpc[t] = "remove"
    /\ IF Exists(trustedFs, HlDst(t))
       THEN /\ trustedFs' = Remove(trustedFs, HlDst(t))
            /\ hlpc' = [hlpc EXCEPT ![t] = "link"]
            /\ UNCHANGED hlret
       ELSE /\ hlret' = [hlret EXCEPT ![t] = "ENOENT"]
            /\ hlpc' = [hlpc EXCEPT ![t] = "unlock"]
            /\ UNCHANGED trustedFs
    /\ UNCHANGED <<hardlinkMutex, hlarg, hlDstInfo>>
    /\ UNCHANGED notHL

\* return os.Link(src, dst)
HlLink(t) ==
    /\ hlpc[t] = "link"
    /\ IF Inode(HlSrc(t)) = NoInode
       THEN /\ hlret' = [hlret EXCEPT ![t] = "ENOENT"]
            /\ UNCHANGED trustedFs
       ELSE IF Exists(trustedFs, HlDst(t))
            THEN /\ hlret' = [hlret EXCEPT ![t] = "EEXIST"]
                 /\ UNCHANGED trustedFs
            ELSE /\ trustedFs' = Link(trustedFs, HlSrc(t), HlDst(t))
                 /\ hlret' = [hlret EXCEPT ![t] = "nil"]
    /\ hlpc' = [hlpc EXCEPT ![t] = "unlock"]
    /\ UNCHANGED <<hardlinkMutex, hlarg, hlDstInfo>>
    /\ UNCHANGED notHL

\* defer hardlinkMutex.Unlock()
HlUnlock(t) ==
    /\ hlpc[t] = "unlock"
    /\ hardlinkMutex' = NoThread
    /\ hlpc' = [hlpc EXCEPT ![t] = "done"]
    /\ UNCHANGED <<trustedFs, hlarg, hlDstInfo, hlret>>
    /\ UNCHANGED notHL

NextHL ==
    \/ \E t \in Threads, src \in CachePaths \cup {MissingPath}, dst \in TrustedPaths :
           HlCall(t, src, dst)
    \/ \E t \in Threads : HlLock(t)
    \/ \E t \in Threads : HlLstatDst(t)
    \/ \E t \in Threads : HlLstatSrc(t)
    \/ \E t \in Threads : HlRemove(t)
    \/ \E t \in Threads : HlLink(t)
    \/ \E t \in Threads : HlUnlock(t)

\* ---- properties of EnsureHardlink ----

HlCallers(dst) == {t \in Threads : hlpc[t] # "idle" /\ HlDst(t) = dst}

\* C4: concurrent EnsureHardlink calls never fail because of one another: a
\* call whose source file exists returns success, and once every goroutine
\* promoting to a destination has returned, all of them with the same source
\* file, the destination is a hardlink to that file (same inode).
C4_ConcurrentHardlink ==
    /\ \A t \in Threads :
           (hlpc[t] = "done" /\ Inode(HlSrc(t)) # NoInode) => hlret[t] = "nil"
    /\ \A dst \in TrustedPaths, src \in CachePaths :
           ( /\ HlCallers(dst) # {}
             /\ \A t \in HlCallers(dst) : hlpc[t] = "done" /\ HlSrc(t) = src )
               => /\ \A t \in HlCallers(dst) : hlret[t] = "nil"
                  /\ trustedFs[dst] = Inode(src)

\* Every goroutine promoted the same cache file to the same destination and
\* has returned success; the destination is that file.
C4_Witness ==
    /\ MaxThreads >= 2
    /\ \A t \in Threads :
           /\ hlpc[t] = "done" /\ hlret[t] = "nil"
           /\ hlarg[t] = hlarg[1]
           /\ Inode(HlSrc(t)) # NoInode
           /\ trustedFs[HlDst(t)] = Inode(HlSrc(t))

(***************************************************************************)
(* Trusted store: LinkFilesToTrusted and writeRedirectMap                  *)
(***************************************************************************)

MaxBatch == 2

Linkers == {"g1", "g2"}
NoLinker == "none"
\* Fetch creates one Storage per feed task, scoped by the feed's RelativePath:
\* s1 and s2 belong to two tasks of the same feed (two repositories listing
\* it), s3 to a task of another feed.
Storages == {"s1", "s2", "s3"}
ScopeOf(storage) == IF storage = "s3" THEN "p2" ELSE "p1"
Absent == "absent"

\* The FileForTrust values the feeds build for the cache files: Hash is the
\* SHA-256 the file was downloaded against, Redirect its path below the feed URL.
FilesForTrust ==
    {[Path |-> p, Distribution |-> d, Hash |-> ContentHash(Inode(p)),
      Source |-> "src", Redirect |-> p[1]] : p \in CachePaths, d \in Distributions}
Batches == UNION {[1..n -> FilesForTrust] : n \in 0..MaxBatch}

\* relPath := filepath.Join(file.Distribution, file.Source, filepath.Base(file.Path))
\* (one source package: the Source part is the same for all paths)
RelPaths == Distributions \X {"x.deb"}
RelPath(file) == <<file.Distribution, file.Path[2]>>
\* dstPath := m.getTrustedPath(relPath)
DstPath(storage, file) == <<ScopeOf(storage), file.Distribution, file.Path[2]>>

EmptyMap == [r \in RelPaths |-> Absent]

\* EnsureHardlink as one step (it runs under hardlinkMutex): the tree it leaves.
EnsureHardlink(fs, src, dst) ==
    IF Exists(fs, dst)
    THEN IF Inode(src) = NoInode THEN fs
         ELSE IF SameFile(Inode(src), fs[dst]) THEN fs
         ELSE Link(Remove(fs, dst), src, dst)
    ELSE IF Inode(src) = NoInode THEN fs ELSE Link(fs, src, dst)

\* Duplicate detection that never reports a conflict.
BatchConflictNever(seenMap, rel, hash) == FALSE

\* if existingHash, exists := seen[dstPath]; exists { if existingHash != file.Hash
BatchConflict(seenMap, rel, hash) == seenMap[rel] # Absent /\ seenMap[rel] # hash

\* maps.Copy(existingRedirects, redirects)
MapsCopy(existing, new) == [r \in RelPaths |-> IF new[r] # Absent THEN new[r] ELSE existing[r]]

IdleLT ==
    /\ ltStorage = [g \in Linkers |-> "s1"]
    /\ redirectsFile = [sc \in Scopes |-> EmptyMap]
    /\ redirectMapMu = [s \in Storages |-> NoLinker]
    /\ ltpc = [g \in Linkers |-> "idle"]
    /\ ltfiles = [g \in Linkers |-> <<>>]
    /\ ltIdx = [g \in Linkers |-> 1]
    /\ seen = [g \in Linkers |-> EmptyMap]
    /\ redirects = [g \in Linkers |-> EmptyMap]
    /\ ltMerged = [g \in Linkers |-> EmptyMap]
    /\ ltret = [g \in Linkers |-> "none"]

\* The goroutines are pool tasks of feed tasks: of the same one, of two tasks
\* with the same scope, or of two tasks with different scopes.
InitLT ==
    /\ ltStorage \in [Linkers -> Storages]
    /\ ltStorage["g1"] = "s1"
    /\ redirectsFile = [sc \in Scopes |-> EmptyMap]
    /\ redirectMapMu = [s \in Storages |-> NoLinker]
    /\ ltpc = [g \in Linkers |-> "idle"]
    /\ ltfiles = [g \in Linkers |-> <<>>]
    /\ ltIdx = [g \in Linkers |-> 1]
    /\ seen = [g \in Linkers |-> EmptyMap]
    /\ redirects = [g \in Linkers |-> EmptyMap]
    /\ ltMerged = [g \in Linkers |-> EmptyMap]
    /\ ltret = [g \in Linkers |-> "none"]

LtStorage(g) == ltStorage[g]
LtFiles(g) == ltfiles[g]

\* A goroutine calls m.LinkFilesToTrusted(ctx, files) on a Storage.
LinkFilesToTrusted(g, files) ==
    /\ ltpc[g] = "idle"
    /\ ltfiles' = [ltfiles EXCEPT ![g] = files]
    /\ ltpc' = [ltpc EXCEPT ![g] = "loop"]
    /\ UNCHANGED <<ltStorage, redirectsFile, redirectMapMu, ltIdx, seen, redirects, ltMerged, ltret>>
    /\ UNCHANGED <<trustedFs, notLT>>

\* One iteration of "for _, file := range files".
LinkFile(g) ==
    /\ ltpc[g] = "loop"
    /\ ltIdx[g] <= Len(LtFiles(g))
    /\ LET file == LtFiles(g)[ltIdx[g]]
           rel == RelPath(file)
       IN  IF BatchConflict(seen[g], rel, file.Hash)
           THEN /\ ltret' = [ltret EXCEPT ![g] = "conflict"]
                /\ ltpc' = [ltpc EXCEPT ![g] = "done"]
                /\ UNCHANGED <<ltIdx, seen, redirects, trustedFs>>
           ELSE IF seen[g][rel] # Absent
           THEN /\ ltIdx' = [ltIdx EXCEPT ![g] = @ + 1]
                /\ UNCHANGED <<ltret, ltpc, seen, redirects, trustedFs>>
           ELSE /\ seen' = [seen EXCEPT ![g][rel] = file.Hash]
                /\ trustedFs' = EnsureHardlink(trustedFs, file.Path, DstPath(LtStorage(g), file))
                /\ redirects' = [redirects EXCEPT ![g][rel] = file.Redirect]
                /\ ltIdx' = [ltIdx EXCEPT ![g] = @ + 1]
                /\ UNCHANGED <<ltret, ltpc>>
    /\ UNCHANGED <<ltStorage, redirectsFile, redirectMapMu, ltfiles, ltMerged>>
    /\ UNCHANGED notLT

\* After the loop: if len(redirects) > 0 { m.writeRedirectMap(redirects) }; return nil
LinkLoopEnd(g) ==
    /\ ltpc[g] = "loop"
    /\ ltIdx[g] > Len(LtFiles(g))
    /\ IF redirects[g] # EmptyMap
       THEN /\ ltpc' = [ltpc EXCEPT ![g] = "rmlock"]
            /\ UNCHANGED ltret
       ELSE /\ ltpc' = [ltpc EXCEPT ![g] = "done"]
            /\ ltret' = [ltret EXCEPT ![g] = "nil"]
    /\ UNCHANGED <<ltStorage, redirectsFile, redirectMapMu, ltfiles, ltIdx, seen, redirects, ltMerged>>
    /\ UNCHANGED <<trustedFs, notLT>>

\* writeRedirectMap: m.redirectMapMu.Lock(); os.ReadFile, yaml.Unmarshal, maps.Copy
\* (a missing file reads as the empty map)
RedirectRead(g) ==
    /\ ltpc[g] = "rmlock"
    /\ redirectMapMu[LtStorage(g)] = NoLinker
    /\ redirectMapMu' = [redirectMapMu EXCEPT ![LtStorage(g)] = g]
    /\ ltMerged' = [ltMerged EXCEPT ![g] =
                        MapsCopy(redirectsFile[ScopeOf(LtStorage(g))], redirects[g])]
    /\ ltpc' = [ltpc EXCEPT ![g] = "rmwrite"]
    /\ UNCHANGED <<ltStorage, redirectsFile, ltfiles, ltIdx, seen, redirects, ltret>>
    /\ UNCHANGED <<trustedFs, notLT>>

\* writeRedirectMap: yaml.Marshal, os.WriteFile, deferred Unlock; return nil
RedirectWrite(g) ==
    /\ ltpc[g] = "rmwrite"
    /\ redirectsFile' = [redirectsFile EXCEPT ![ScopeOf(LtStorage(g))] = ltMerged[g]]
    /\ redirectMapMu' = [redirectMapMu EXCEPT ![LtStorage(g)] = NoLinker]
    /\ ltret' = [ltret EXCEPT ![g] = "nil"]
    /\ ltpc' = [ltpc EXCEPT ![g] = "done"]
    /\ UNCHANGED <<ltStorage, ltfiles, ltIdx, seen, redirects, ltMerged>>
    /\ UNCHANGED <<trustedFs, notLT>>

NextLT ==
    \/ \E g \in Linkers, files \in Batches : LinkFilesToTrusted(g, files)
    \/ \E g \in Linkers : LinkFile(g)
    \/ \E g \in Linkers : LinkLoopEnd(g)
    \/ \E g \in Linkers : RedirectRead(g)
    \/ \E g \in Linkers : RedirectWrite(g)

\* ---- properties of the trusted store ----

LtDone(g) == ltpc[g] = "done"
LtScope(g) == ScopeOf(LtStorage(g))
\* The destinations goroutine g has hardlinked so far, with the hash it promoted.
Promoted(g, path) ==
    /\ ltpc[g] # "idle"
    /\ LtScope(g) = path[1]
    /\ seen[g][<<path[2], path[3]>>] # Absent
PromotedHash(g, path) == seen[g][<<path[2], path[3]>>]
HasBatchConflict(files) ==
    \E i, j \in 1..Len(files) :
        i < j /\ RelPath(files[i]) = RelPath(files[j]) /\ files[i].Hash # files[j].Hash

\* C3 (as stated): two promotions of different content to one trusted
\* destination conflict, in whichever batches they are: at least one of the
\* two calls reports the conflict error.
C3_ConflictAcrossBatches ==
    \A g1, g2 \in Linkers, path \in TrustedPaths :
        ( /\ g1 # g2 /\ LtDone(g1) /\ LtDone(g2)
          /\ Promoted(g1, path) /\ Promoted(g2, path)
          /\ PromotedHash(g1, path) # PromotedHash(g2, path) )
            => (ltret[g1] = "conflict" \/ ltret[g2] = "conflict")

\* C3 (amended): a call reports the conflict error exactly when its own batch
\* holds two files for one destination with different hashes (a repeated file
\* with the same hash is skipped); promotions from different batches never
\* conflict, each call force-replaces what the destination held, so a
\* destination always holds exactly one file, the one of some promotion to it;
\* promotions to distinct destinations do not affect each other.
C3_ConflictWithinBatch ==
    /\ \A g \in Linkers :
           LtDone(g) =>
               /\ ltret[g] \in {"nil", "conflict"}
               /\ ltret[g] = "conflict" <=> HasBatchConflict(LtFiles(g))
    /\ \A path \in TrustedPaths :
           IF \E g \in Linkers : Promoted(g, path)
           THEN \E g \in Linkers :
                    /\ Promoted(g, path)
                    /\ trustedFs[path] # NoInode
                    /\ ContentHash(trustedFs[path]) = PromotedHash(g, path)
           ELSE trustedFs[path] = NoInode

\* One call failed on a conflict inside its batch while another call promoted
\* to the same destination content that differs from the first call's, and
\* returned success.
C3_Witness ==
    \E g1, g2 \in Linkers, path \in TrustedPaths :
        /\ g1 # g2 /\ LtDone(g1) /\ LtDone(g2)
        /\ ltret[g1] = "conflict" /\ ltret[g2] = "nil"
        /\ Promoted(g1, path) /\ Promoted(g2, path)
        /\ PromotedHash(g1, path) # PromotedHash(g2, path)

\* C5: no update of a scope's redirects.yaml is lost: once a call has
\* returned success, every entry it merged is in the file of its scope.
C5_NoLostUpdate ==
    \A g \in Linkers :
        (LtDone(g) /\ ltret[g] = "nil") =>
            \A rel \in RelPaths :
                redirects[g][rel] # Absent => redirectsFile[LtScope(g)][rel] # Absent

HasBatchDuplicate(files) ==
    \E i, j \in 1..Len(files) :
        i < j /\ RelPath(files[i]) = RelPath(files[j]) /\ files[i].Hash = files[j].Hash

\* C24: within one batch, two entries for the same trusted destination with
\* different hashes make the call fail with the conflict error; two entries
\* for the same destination with the same hash count as one: the second is
\* skipped, and a batch with no other conflict succeeds with the
\* destination linked and its redirect merged once.
C24_DuplicatesInBatch ==
    \A g \in Linkers :
        LtDone(g) =>
            /\ HasBatchConflict(LtFiles(g)) => ltret[g] = "conflict"
            /\ (HasBatchDuplicate(LtFiles(g)) /\ ~HasBatchConflict(LtFiles(g))) =>
                   /\ ltret[g] = "nil"
                   /\ ltIdx[g] = Len(LtFiles(g)) + 1
                   /\ \A i \in 1..Len(LtFiles(g)) :
                          /\ seen[g][RelPath(LtFiles(g)[i])] = LtFiles(g)[i].Hash
                          /\ redirects[g][RelPath(LtFiles(g)[i])] = LtFiles(g)[i].Redirect

\* One call with the same file twice in its batch has returned success,
\* another with two different files for one destination has failed.
C24_Witness ==
    \E g1, g2 \in Linkers :
        /\ LtDone(g1) /\ LtDone(g2)
        /\ Len(LtFiles(g1)) = 2 /\ LtFiles(g1)[1] = LtFiles(g1)[2] /\ ltret[g1] = "nil"
        /\ HasBatchConflict(LtFiles(g2)) /\ ltret[g2] = "conflict"

\* C30: after a call has returned, with success or with an error, every
\* file it hardlinked into the trusted store with a redirect suffix has its
\* entry in the redirects.yaml of the scope.
C30_RedirectsPersisted ==
    \A g \in Linkers, rel \in RelPaths :
        (LtDone(g) /\ redirects[g][rel] # Absent) =>
            /\ trustedFs[<<LtScope(g), rel[1], rel[2]>>] # NoInode
            /\ redirectsFile[LtScope(g)][rel] # Absent

(***************************************************************************)
(* Signature verifier: Verifier.VerifyAndClear                             *)
(***************************************************************************)

\* Documents are sequences of lines. A clearsigned document is the armor
\* header, the signed text and the signature (named by the key that made it,
\* "bad" for a signature no key verifies); an unsigned document is its text.
Armor == "-----BEGIN PGP SIGNED MESSAGE-----"
Texts == {"t1", "t2"}
Keys == {"k1", "k2"}
Signatures == Keys \cup {"bad"}
Documents == {<<t>> : t \in Texts} \cup {<<Armor, t, sig>> : t \in Texts, sig \in Signatures}
Nil == <<"nil">>

Verifiers == [AcceptUnsigned : BOOLEAN, IgnoreSignatures : BOOLEAN, keyring : SUBSET Keys]
\* Failures of the pgp backend that do not depend on the document.
Faults == [isClearSigned : BOOLEAN, extract : BOOLEAN]
NoFault == [isClearSigned |-> FALSE, extract |-> FALSE]

\* pgp.Verifier.IsClearSigned, VerifyClearsigned (the good keys, or failure),
\* ExtractClearsigned; a reader at offset pos yields the lines after it.
IsClearSigned(file) == file[1] = Armor
VerifyClearsigned(v, file) == file[3] \in v.keyring
GoodKeys(file) == <<file[3]>>
ExtractClearsigned(file) == <<file[2]>>
ReadFrom(file, pos) == SubSeq(file, pos + 1, Len(file))

Result(rc, keys, err) == [rc |-> rc, keys |-> keys, err |-> err]

\* A variant that tests IgnoreSignatures before the missing-signature check.
VerifyAndClearIgnoreFirst(v, file, fault) ==
    IF fault.isClearSigned THEN Result(Nil, Nil, "io error")
    ELSE IF v.IgnoreSignatures
    THEN IF IsClearSigned(file)
         THEN IF fault.extract THEN Result(Nil, Nil, "io error")
              ELSE Result(ExtractClearsigned(file), Nil, "nil")
         ELSE Result(ReadFrom(file, 0), Nil, "nil")
    ELSE IF ~IsClearSigned(file) /\ ~v.AcceptUnsigned
    THEN Result(Nil, Nil, "ErrMissingSignature")
    ELSE IF IsClearSigned(file)
    THEN IF ~VerifyClearsigned(v, file)
         THEN Result(Nil, Nil, "ErrSignatureVerificationFailed")
         ELSE IF fault.extract THEN Result(Nil, GoodKeys(file), "io error")
         ELSE Result(ExtractClearsigned(file), GoodKeys(file), "nil")
    ELSE Result(ReadFrom(file, 0), Nil, "nil")

\* func (v *Verifier) VerifyAndClear(file io.ReadSeeker) (io.ReadCloser, []pgp.Key, error)
\* IsClearSigned reads the first line; file.Seek(0, 0) rewinds before any other use.
VerifyAndClear(v, file, fault) ==
    IF fault.isClearSigned THEN Result(Nil, Nil, "io error")
    ELSE IF ~IsClearSigned(file) /\ ~v.AcceptUnsigned
    THEN Result(Nil, Nil, "ErrMissingSignature")
    ELSE IF v.IgnoreSignatures
    THEN IF IsClearSigned(file)
         THEN IF fault.extract THEN Result(Nil, Nil, "io error")
              ELSE Result(ExtractClearsigned(file), Nil, "nil")
         ELSE Result(ReadFrom(file, 0), Nil, "nil")
    ELSE IF IsClearSigned(file)
    THEN IF ~VerifyClearsigned(v, file)
         THEN Result(Nil, Nil, "ErrSignatureVerificationFailed")
         ELSE IF fault.extract THEN Result(Nil, GoodKeys(file), "io error")
         ELSE Result(ExtractClearsigned(file), GoodKeys(file), "nil")
    ELSE Result(ReadFrom(file, 0), Nil, "nil")

NoCall == [file |-> Nil, fault |-> NoFault]
IdleV ==
    /\ verifier = [AcceptUnsigned |-> FALSE, IgnoreSignatures |-> FALSE, keyring |-> {}]
    /\ vcall = NoCall
    /\ vres = Result(Nil, Nil, "none")

\* initializeVerifier: the repository's verification options and keyring.
InitV ==
    /\ verifier \in Verifiers
    /\ vcall = NoCall
    /\ vres = Result(Nil, Nil, "none")

VerifyAndClearCall(file, fault) ==
    /\ vcall' = [file |-> file, fault |-> fault]
    /\ vres' = VerifyAndClear(verifier, file, fault)
    /\ UNCHANGED verifier
    /\ UNCHANGED notV

NextV == \E file \in Documents, fault \in Faults : VerifyAndClearCall(file, fault)

\* ---- properties of the verifier ----

\* C6: the decision table of VerifyAndClear. Unsigned input with
\* AcceptUnsigned=false fails with ErrMissingSignature whatever
\* IgnoreSignatures is; clearsigned input with IgnoreSignatures=false fails
\* with ErrSignatureVerificationFailed when verification fails and otherwise
\* returns the cleartext and the verifying keys; clearsigned input with
\* IgnoreSignatures=true returns the cleartext and no keys; unsigned input with
\* AcceptUnsigned=true is returned unchanged, with no keys. Content is returned
\* in no other case.
C6_DecisionTable ==
    LET file == vcall.file
        signed == IsClearSigned(file)
        readable == ~vcall.fault.isClearSigned
        healthy == vcall.fault = NoFault
    IN  vres.err # "none" =>
          /\ (readable /\ ~signed /\ ~verifier.AcceptUnsigned) =>
                 vres = Result(Nil, Nil, "ErrMissingSignature")
          /\ (readable /\ signed /\ ~verifier.IgnoreSignatures /\ file[3] \notin verifier.keyring) =>
                 vres = Result(Nil, Nil, "ErrSignatureVerificationFailed")
          /\ (healthy /\ signed /\ ~verifier.IgnoreSignatures /\ file[3] \in verifier.keyring) =>
                 vres = Result(<<file[2]>>, <<file[3]>>, "nil")
          /\ (healthy /\ signed /\ verifier.IgnoreSignatures) =>
                 vres = Result(<<file[2]>>, Nil, "nil")
          /\ (readable /\ ~signed /\ verifier.AcceptUnsigned) =>
                 vres = Result(file, Nil, "nil")
          /\ vres.rc # Nil =>
                 /\ vres.err = "nil"
                 /\ signed \/ verifier.AcceptUnsigned
                 /\ (signed /\ ~verifier.IgnoreSignatures) => file[3] \in verifier.keyring
                 /\ vres.keys # Nil <=> (signed /\ ~verifier.IgnoreSignatures)

\* An unsigned document was rejected although signatures are ignored.
C6_Witness ==
    /\ vres = Result(Nil, Nil, "ErrMissingSignature")
    /\ verifier.IgnoreSignatures /\ ~verifier.AcceptUnsigned
    /\ ~IsClearSigned(vcall.file) /\ vcall.file # Nil

(***************************************************************************)
(* Repository: AddPackage, updateLatest                                    *)
(***************************************************************************)

MaxPackages == 3

\* Version strings as sequences of characters (no epoch, no revision).
Digits == <<"0", "1", "2", "3", "4", "5", "6", "7", "8", "9">>
IsDigit(c) == \E i \in 1..Len(Digits) : Digits[i] = c
DigitValue(c) == (CHOOSE i \in 1..Len(Digits) : Digits[i] = c) - 1
Versions == { <<"1", ".", "0">>, <<"1", ".", "0", "0">>, <<"1", ".", "1">> }

\* Length of the longest prefix of s made of digits (digits = TRUE) or of
\* non-digits (digits = FALSE).
RECURSIVE PrefixLen(_, _)
PrefixLen(s, digits) ==
    IF s = <<>> \/ IsDigit(s[1]) # digits THEN 0 ELSE 1 + PrefixLen(Tail(s), digits)
RECURSIVE NumericValue(_)
NumericValue(s) ==
    IF s = <<>> THEN 0 ELSE 10 * NumericValue(SubSeq(s, 1, Len(s) - 1)) + DigitValue(s[Len(s)])
Sign(n) == IF n < 0 THEN -1 ELSE IF n > 0 THEN 1 ELSE 0
\* Debian's order of the characters of a non-digit part: "~" before the end of
\* the part, the end before everything else.
CharOrder(s, i) == IF i > Len(s) THEN 0 ELSE IF s[i] = "~" THEN -1 ELSE 1
RECURSIVE CompareLexicographic(_, _, _)
CompareLexicographic(a, b, i) ==
    IF i > Len(a) /\ i > Len(b) THEN 0
    ELSE IF CharOrder(a, i) # CharOrder(b, i) THEN Sign(CharOrder(a, i) - CharOrder(b, i))
    ELSE CompareLexicographic(a, b, i + 1)

\* deb.CompareVersions (aptly) on versions of the form digits ("." digits)*:
\* alternately the non-digit parts are compared in Debian's character order and
\* the digit parts as numbers. Result: -1, 0 or 1.
RECURSIVE CompareVersions(_, _)
CompareVersions(a, b) ==
    IF a = <<>> /\ b = <<>> THEN 0
    ELSE LET la == PrefixLen(a, FALSE)
             lb == PrefixLen(b, FALSE)
             lex == CompareLexicographic(SubSeq(a, 1, la), SubSeq(b, 1, lb), 1)
             ra == SubSeq(a, la + 1, Len(a))
             rb == SubSeq(b, lb + 1, Len(b))
             na == PrefixLen(ra, TRUE)
             nb == PrefixLen(rb, TRUE)
             num == Sign(NumericValue(SubSeq(ra, 1, na)) - NumericValue(SubSeq(rb, 1, nb)))
         IN  IF lex # 0 THEN lex
             ELSE IF num # 0 THEN num
             ELSE CompareVersions(SubSeq(ra, na + 1, Len(ra)), SubSeq(rb, nb + 1, Len(rb)))

\* deb.Package: Name, Version, Architecture and the identity of its file.
Architectures == {"amd64", "all"}
Packages ==
    {[Name |-> "p", Version |-> v, Architecture |-> a, Sum |-> "f1"] :
         v \in Versions, a \in Architectures}
    \cup {[Name |-> "p", Version |-> <<"1", ".", "0">>, Architecture |-> a, Sum |-> "f2"] :
              a \in Architectures}
Components == {"main", "contrib"}
KeptEntries == Packages \X {"d1"} \X Components
NoPackage == [Name |-> "", Version |-> <<>>, Architecture |-> "", Sum |-> ""]

LatestKeys == {"p"} \X {"d1"} \X Architectures
ListKeys == {"d1"} \X Components

\* deb.PackageList.Add (aptly): a package with the key (architecture, name,
\* version) of a different package already in the list is a conflict.
AddConflicts(list, pkg) ==
    \E q \in list :
        /\ q.Name = pkg.Name /\ q.Version = pkg.Version /\ q.Architecture = pkg.Architecture
        /\ q # pkg

\* updateLatest that replaces the entry also on an equal version.
UpdateLatestOnEqual(lat, pkg, distribution, arch) ==
    LET key == <<pkg.Name, distribution, arch>>
    IN  IF lat[key] # NoPackage /\ CompareVersions(pkg.Version, lat[key].Version) < 0
        THEN lat
        ELSE [lat EXCEPT ![key] = pkg]

\* updateLatest that replaces the entry without comparing versions.
UpdateLatestAlways(lat, pkg, distribution, arch) ==
    [lat EXCEPT ![<<pkg.Name, distribution, arch>>] = pkg]

\* func (r *Repository) updateLatest(pkg *deb.Package, distribution, arch string)
UpdateLatest(lat, pkg, distribution, arch) ==
    LET key == <<pkg.Name, distribution, arch>>
    IN  IF lat[key] # NoPackage /\ CompareVersions(pkg.Version, lat[key].Version) <= 0
        THEN lat
        ELSE [lat EXCEPT ![key] = pkg]

Builds == {"A", "B"}
NoEntry == <<NoPackage, "", "">>
NoAddCall == [build |-> "", entry |-> NoEntry, found |-> NoPackage, err |-> "none"]

IdleR ==
    /\ kept = {}
    /\ pending = [r \in Builds |-> {}]
    /\ packages = [r \in Builds |-> [k \in ListKeys |-> {}]]
    /\ latest = [r \in Builds |-> [k \in LatestKeys |-> NoPackage]]
    /\ lastCall = NoAddCall

\* NewRepository, twice, for one set of kept packages.
InitR ==
    /\ kept \in {S \in SUBSET KeptEntries : Cardinality(S) <= MaxPackages}
    /\ pending = [r \in Builds |-> kept]
    /\ packages = [r \in Builds |-> [k \in ListKeys |-> {}]]
    /\ latest = [r \in Builds |-> [k \in LatestKeys |-> NoPackage]]
    /\ lastCall = NoAddCall

\* buildRepository's callback: repo.AddPackage(pkg, dist, component), for the
\* entry the iteration reaches next; an error ends the iteration (ForEachKept
\* returns it and buildRepository drops it). The two builds share nothing, so
\* build B runs after build A.
AddPackage(r, entry) ==
    LET pkg == entry[1]
        distribution == entry[2]
        component == IF entry[3] = "" THEN "main" ELSE entry[3]
        list == packages[r][<<distribution, component>>]
        found == latest[r][<<pkg.Name, distribution, pkg.Architecture>>]
    IN  /\ entry \in pending[r]
        /\ r = "B" => pending["A"] = {}
        /\ IF AddConflicts(list, pkg)
           THEN /\ pending' = [pending EXCEPT ![r] = {}]
                /\ lastCall' = [build |-> r, entry |-> entry, found |-> found, err |-> "conflict"]
                /\ UNCHANGED <<packages, latest>>
           ELSE /\ pending' = [pending EXCEPT ![r] = @ \ {entry}]
                /\ packages' = [packages EXCEPT ![r][<<distribution, component>>] = @ \cup {pkg}]
                /\ latest' = [latest EXCEPT ![r] =
                                  UpdateLatest(@, pkg, distribution, pkg.Architecture)]
                /\ lastCall' = [build |-> r, entry |-> entry, found |-> found, err |-> "nil"]
        /\ UNCHANGED kept
        /\ UNCHANGED notR

NextR == \E r \in Builds, entry \in KeptEntries : AddPackage(r, entry)

\* ---- properties of the Repository ----

KeyOf(entry) == <<entry[1].Name, entry[2], entry[1].Architecture>>
\* The packages build r has inserted for a key of latest, over all components.
Inserted(r, key) ==
    {q \in UNION {packages[r][lk] : lk \in {l \in ListKeys : l[1] = key[2]}} :
         q.Name = key[1] /\ q.Architecture = key[3]}
BuildComplete(r) ==
    /\ pending[r] = {}
    /\ \A entry \in kept : entry[1] \in packages[r][<<entry[2], entry[3]>>]

\* C9: the latest entry of a (name, distribution, architecture) never
\* regresses: an AddPackage call replaces an existing entry only by a package
\* whose version is strictly greater under Debian ordering.
C9_LatestNeverRegresses ==
    [][\A r \in Builds, key \in LatestKeys :
           (latest[r][key] # NoPackage /\ latest'[r][key] # latest[r][key])
               => /\ latest'[r][key] # NoPackage
                  /\ CompareVersions(latest'[r][key].Version, latest[r][key].Version) > 0]_vars

\* An AddPackage call found an entry and replaced it by its own package.
C9_Witness ==
    /\ lastCall.err = "nil"
    /\ lastCall.found # NoPackage
    /\ latest[lastCall.build][KeyOf(lastCall.entry)] = lastCall.entry[1]
    /\ lastCall.entry[1] # lastCall.found

\* C10 (as stated): two builds from the same set of packages end with the
\* same latest mapping, whatever the order of insertion.
C10_LatestOrderIndependent ==
    (pending["A"] = {} /\ pending["B"] = {}) => latest["A"] = latest["B"]

\* C10 (amended): every latest entry is one of the inserted packages of its
\* key with the greatest version among them, so when two builds have inserted
\* the same set of packages (no AddPackage call failed) their latest entries
\* have versions that compare equal under Debian ordering, whatever the
\* orders; which of several packages with the greatest version is the entry
\* depends on the order.
C10_VersionOrderIndependent ==
    /\ \A r \in Builds, key \in LatestKeys :
           IF Inserted(r, key) = {}
           THEN latest[r][key] = NoPackage
           ELSE /\ latest[r][key] \in Inserted(r, key)
                /\ \A q \in Inserted(r, key) :
                       CompareVersions(q.Version, latest[r][key].Version) <= 0
    /\ (BuildComplete("A") /\ BuildComplete("B")) =>
           \A key \in LatestKeys :
               /\ latest["A"][key] = NoPackage <=> latest["B"][key] = NoPackage
               /\ CompareVersions(latest["A"][key].Version, latest["B"][key].Version) = 0

\* Both builds inserted every package; for one key they hold different
\* packages, of equal version.
C10_Witness ==
    /\ kept # {} /\ BuildComplete("A") /\ BuildComplete("B")
    /\ \E key \in LatestKeys :
           /\ latest["A"][key] # latest["B"][key]
           /\ latest["A"][key] # NoPackage /\ latest["B"][key] # NoPackage
           /\ CompareVersions(latest["A"][key].Version, latest["B"][key].Version) = 0

(***************************************************************************)
(* Composer: generateDistribution for one distribution                     *)
(* (internal/log/handler.go).  One goroutine per component walks the       *)
(* component's architectures; for each it writes the Packages/Sources      *)
(* index and then links the packages' files into the output pool.          *)
(*                                                                         *)
(* A path is a sequence of path elements and an element is a sequence of   *)
(* characters, so that GetPoolPath can slice a package name as the code    *)
(* does.  Output paths are relative to options.Target, source paths of the *)
(* hardlinks are relative to options.Trusted.                              *)
(***************************************************************************)
PoolDir == <<"p", "o", "o", "l">>
MainComponent == <<"m", "a", "i", "n">>
DebugComponent == <<"d", "e", "b", "u", "g">>
SourceArchitecture == "source"
AllArchitecture == "all"
PoolModes == {"hierarchical", "redirect"}

\* Elements of the example feed: its RelativePath, a distribution directory,
\* the release directory its redirect map points to.
FeedRelPath == <<<<"g", "h">>>>
DistDir == <<"d", "1">>
ReleaseDir == <<"v", "1">>

NameApp == <<"a", "p", "p">>
NameLib == <<"l", "i", "b">>
NameLibz == <<"l", "i", "b", "z">>
NameLibzDev == <<"l", "i", "b", "z", "1">>
NameAppDbg == <<"a", "p", "p", "-", "d">>
NoSource == <<>>

Deb(name) == name \o <<".", "d", "e", "b">>
Dsc(name) == name \o <<".", "d", "s", "c">>
Tar(name) == name \o <<".", "t", "a", "r">>

\* filepath.Dir and filepath.Base of a path with at least one element.
Dir(path) == SubSeq(path, 1, Len(path) - 1)
Base(path) == path[Len(path)]

\* strings.HasPrefix
HasPrefix(s, prefix) == Len(s) >= Len(prefix) /\ SubSeq(s, 1, Len(prefix)) = prefix

\* The trusted store keeps a feed's files at <feed>/<dist>/<source>/<file>.
TrustedRelPath(source, file) == FeedRelPath \o <<DistDir, source, file>>

\* debext.ParseBinary(absPath, filepath.Dir(relPath)): Filename is
\* poolPath/filename with poolPath the directory of the trusted-relative path.
ParseBinary(name, source, arch, relPath) ==
    [Name |-> name, Source |-> source, IsSource |-> FALSE, Architecture |-> arch,
     stanza |-> [Filename |-> Dir(relPath) \o <<Base(relPath)>>, Directory |-> <<>>],
     files |-> {Base(relPath)}]

\* debext.ParseSource(absPath, verifier, filepath.Dir(relPath)): Directory is
\* the directory of the .dsc, Files() the files the .dsc lists and itself.
ParseSource(name, relPath) ==
    [Name |-> name, Source |-> NoSource, IsSource |-> TRUE,
     Architecture |-> SourceArchitecture,
     stanza |-> [Filename |-> <<>>, Directory |-> Dir(relPath)],
     files |-> {Base(relPath), Tar(name)}]

\* Package.Stanza() of aptly returns a copy of the package's fields.
Stanza(pkg) == pkg.stanza

\* debext.ModifyPackageStanza: the package is replaced by one built from
\* the modified copy.
ModifyPackageStanza(pkg, key, value) ==
    [pkg EXCEPT !.stanza = [Stanza(pkg) EXCEPT ![key] = value]]

\* Apt.redirectMaps[feedRelPath]: path inside the feed -> redirect target.
RedirectTarget(fileRelPath) == <<ReleaseDir, Base(fileRelPath)>>

\* Apt.getRedirectTarget: the feed prefix is trimmed, the rest looked up.
GetRedirectTarget(relPath) ==
    RedirectTarget(SubSeq(relPath, Len(FeedRelPath) + 1, Len(relPath)))

\* Apt.applyRedirectsToPackage (redirect mode, during collection).
ApplyRedirectsToPackage(pkg, relPath) ==
    IF pkg.IsSource
    THEN ModifyPackageStanza(pkg, "Directory",
             <<PoolDir>> \o FeedRelPath \o Dir(GetRedirectTarget(relPath)))
    ELSE ModifyPackageStanza(pkg, "Filename",
             <<PoolDir>> \o FeedRelPath \o GetRedirectTarget(relPath))

\* Apt.parseFile followed by the redirect step of processFeedPackageFile.
ProcessFeedPackageFile(poolMode, parsed, relPath) ==
    IF poolMode = "redirect" THEN ApplyRedirectsToPackage(parsed, relPath) ELSE parsed

BinaryFiles ==
    { <<NameApp, NoSource, "amd64">>, <<NameLib, NoSource, "arm64">>,
      <<NameLibzDev, NameLibz, AllArchitecture>> }
DebugFiles == { <<NameAppDbg, NameApp, "amd64">> }
SourceFiles == { NameLibz }

\* debext.GetSourceNameFromPackage
GetSourceNameFromPackage(pkg) ==
    IF pkg.IsSource THEN pkg.Name
    ELSE IF pkg.Source # NoSource THEN pkg.Source ELSE pkg.Name

\* debext.GetPoolPath: pool/component/first-letter/package-name, the first
\* four characters for a name that starts with "lib" and is longer.
GetPoolPath(component, packageName) ==
    LET firstLetter == IF HasPrefix(packageName, NameLib) /\ Len(packageName) > 3
                       THEN SubSeq(packageName, 1, 4)
                       ELSE <<packageName[1]>>
    IN  <<PoolDir, component, firstLetter, packageName>>

\* The package a feed file becomes when the composer collects it.
CollectBinary(poolMode, f) ==
    LET source == IF f[2] # NoSource THEN f[2] ELSE f[1]
        relPath == TrustedRelPath(source, Deb(f[1]))
    IN  ProcessFeedPackageFile(poolMode, ParseBinary(f[1], f[2], f[3], relPath), relPath)

CollectSource(poolMode, name) ==
    LET relPath == TrustedRelPath(name, Dsc(name))
    IN  ProcessFeedPackageFile(poolMode, ParseSource(name, relPath), relPath)

ComposeOptions == [PoolMode : PoolModes, Source : BOOLEAN, Debug : BOOLEAN]
PoolComponents == {MainComponent, DebugComponent}

\* comps of generateDistribution
Comps(opts) == {MainComponent} \cup (IF opts.Debug THEN {DebugComponent} ELSE {})

\* PackageList.Architectures(includeSource) of aptly: sorted, "all" left
\* out, "source" only on request.
SortedArchitectures == <<"amd64", "arm64", SourceArchitecture>>

GetArchitectures(list, includeSource) ==
    LET Present(a) == /\ \E pkg \in list : pkg.Architecture = a
                      /\ (a # SourceArchitecture \/ includeSource)
    IN  SelectSeq(SortedArchitectures, Present)

\* The $Architecture query of aptly: an "all" package matches every binary
\* architecture.
FilterArchitecture(list, arch) ==
    { pkg \in list : \/ pkg.Architecture = arch
                     \/ pkg.Architecture = AllArchitecture /\ arch # SourceArchitecture }

IdleC ==
    /\ options = [PoolMode |-> "hierarchical", Source |-> FALSE, Debug |-> FALSE]
    /\ cpackages = [comp \in PoolComponents |-> {}]
    /\ cpos = [comp \in PoolComponents |-> 1]
    /\ cphase = [comp \in PoolComponents |-> "index"]
    /\ indexFiles = {}
    /\ targetTree = {}

\* The Repository that buildRepository hands to generateDistribution.
InitC ==
    /\ options \in ComposeOptions
    /\ \E bin \in SUBSET BinaryFiles, src \in SUBSET SourceFiles, dbg \in SUBSET DebugFiles :
          /\ ~options.Source => src = {}
          /\ ~options.Debug => dbg = {}
          /\ cpackages =
                [comp \in PoolComponents |->
                    IF comp = MainComponent
                    THEN { CollectBinary(options.PoolMode, f) : f \in bin }
                         \cup { CollectSource(options.PoolMode, n) : n \in src }
                    ELSE { CollectBinary(options.PoolMode, f) : f \in dbg }]
    /\ cpos = [comp \in PoolComponents |-> 1]
    /\ cphase = [comp \in PoolComponents |-> "index"]
    /\ indexFiles = {}
    /\ targetTree = {}

Arches(comp) == GetArchitectures(cpackages[comp], options.Source)
CompRunning(comp) == comp \in Comps(options) /\ cpos[comp] <= Len(Arches(comp))

\* Apt.generatePackageIndex with debext.GeneratePackageIndex: the stanza of
\* every package of the architecture is written to Packages or Sources.
GeneratePackageIndex(comp) ==
    /\ CompRunning(comp)
    /\ cphase[comp] = "index"
    /\ LET arch == Arches(comp)[cpos[comp]]
           pkgList == FilterArchitecture(cpackages[comp], arch)
       IN  indexFiles' = indexFiles \cup
               { [comp |-> comp, arch |-> arch, pkg |-> pkg, stanza |-> Stanza(pkg)]
                   : pkg \in pkgList }
    /\ cphase' = [cphase EXCEPT ![comp] = "link"]
    /\ UNCHANGED <<options, cpackages, cpos, targetTree>>
    /\ UNCHANGED notC

\* Apt.linkPackageFile: the pool directory is computed, the new path is
\* assigned into the map that Stanza() returned, and every file is linked
\* from <Trusted>/relOrigDir to <Target>/relTargetDir.
LinkPackageFile(pkg, comp) ==
    LET source == GetSourceNameFromPackage(pkg)
        relTargetDir == GetPoolPath(comp, source)
        relOrigDir == IF pkg.IsSource THEN Stanza(pkg).Directory
                      ELSE Dir(Stanza(pkg).Filename)
        assigned == IF pkg.IsSource
                    THEN [Stanza(pkg) EXCEPT !.Directory = relTargetDir]
                    ELSE [Stanza(pkg) EXCEPT
                             !.Filename = relTargetDir \o <<Base(Stanza(pkg).Filename)>>]
    IN  [pkg |-> pkg, assigned |-> assigned,
         links |-> { [src |-> relOrigDir \o <<file>>, dst |-> relTargetDir \o <<file>>]
                       : file \in pkg.files }]

\* Apt.linkPackagesToPool, and the step of the loop to the next architecture.
LinkPackagesToPool(comp) ==
    /\ CompRunning(comp)
    /\ cphase[comp] = "link"
    /\ LET arch == Arches(comp)[cpos[comp]]
           pkgList == FilterArchitecture(cpackages[comp], arch)
           linked == { LinkPackageFile(pkg, comp) : pkg \in pkgList }
       IN  IF options.PoolMode = "redirect"
           THEN UNCHANGED <<cpackages, targetTree>>
           ELSE /\ cpackages' = [cpackages EXCEPT ![comp] =
                                    (@ \ pkgList) \cup { l.pkg : l \in linked }]
                /\ targetTree' = targetTree \cup
                                    UNION { { k.dst : k \in l.links } : l \in linked }
    /\ cpos' = [cpos EXCEPT ![comp] = @ + 1]
    /\ cphase' = [cphase EXCEPT ![comp] = "index"]
    /\ UNCHANGED <<options, indexFiles>>
    /\ UNCHANGED notC

NextC ==
    \E comp \in PoolComponents : GeneratePackageIndex(comp) \/ LinkPackagesToPool(comp)

ComposeDone == \A comp \in Comps(options) : ~CompRunning(comp)

\* C8: in hierarchical pool mode, once the distribution is generated, every
\* Filename (binary package) and Directory (source package) written to an
\* index names a path pool/<component>/<prefix>/<source>/... of the output
\* tree at which this run hardlinked the package's file(s).
C8_IndexNamesPoolPaths ==
    (options.PoolMode = "hierarchical" /\ ComposeDone) =>
        \A e \in indexFiles :
            LET poolPath == GetPoolPath(e.comp, GetSourceNameFromPackage(e.pkg))
            IN  IF e.pkg.IsSource
                THEN /\ e.stanza.Directory = poolPath
                     /\ \A file \in e.pkg.files : e.stanza.Directory \o <<file>> \in targetTree
                ELSE /\ Dir(e.stanza.Filename) = poolPath
                     /\ e.stanza.Filename \in targetTree

(***************************************************************************)
(* Feed adapters: the path of one package file from the remote host to the *)
(* trusted store (internal/feed/apt.go, internal/feed/github.go, Storage). *)
(*                                                                         *)
(* The remote host is not trusted: it serves any document as InRelease or  *)
(* .changes, any index, any package file and advertises any asset digest.  *)
(* A file content is a sequence of strings (a Document of the verifier for *)
(* anchors and indices), a hash is the sequence Sha256 makes of it.        *)
(***************************************************************************)
NoFile == <<"absent">>
NoHash == <<>>
Blobs == {<<"b1">>, <<"b2">>}
Indices == {<<t>> : t \in Texts}

\* hex.EncodeToString(sha256.Sum(content)), free of collisions.
Sha256(content) == <<"#">> \o content

\* The SHA256 section of a Release names the index by its hash.
IndexHashIn(text) == Sha256(<<text>>)

\* file.Checksums.SHA256 of the package file in an index or a .changes:
\* "t1" declares the hash of b1, "t2" has no SHA-256 for the file.
FileHashIn(text) == IF text = "t1" THEN Sha256(<<"b1">>) ELSE NoHash

\* asset.GetDigest() of the release-page host: empty, "sha256:<hex>" or
\* another algorithm.
NoDigest == <<>>
FileDigests ==
    {NoDigest, <<"sha512">> \o Sha256(<<"b1">>)}
        \cup { <<"sha256">> \o Sha256(b) : b \in Blobs }
        \cup { Sha256(b) : b \in Blobs }

\* ParseGitHubDigest: <<algorithm, hash>>; sha256 is assumed without prefix.
ParseGitHubDigest(digest) ==
    IF digest = NoDigest THEN <<"", NoHash>>
    ELSE IF digest[1] # "#" THEN <<digest[1], Tail(digest)>>
    ELSE <<"sha256", digest>>

DownloadPaths == {"anchor", "index", "file"}

\* Storage.GetDownloadPath: the path below the download directory; the
\* empty path is what a failed call returns.
GetDownloadPath(path) == <<"downloads", path>>
NoPath == <<>>

\* A check that never finds the file.
FileExistsNever(dir, path, hashMethod, expectedHash) == FALSE

\* fileExistsWithHash
FileExistsAnyHash(dir, path, hashMethod, expectedHash) == dir[path] # NoFile

FileExistsWithHash(dir, path, hashMethod, expectedHash) ==
    /\ expectedHash # NoHash
    /\ hashMethod = "sha256"
    /\ dir[path] # NoFile
    /\ Sha256(dir[path]) = expectedHash

\* Downloader.download: grab with SetChecksum(sha256.New(), expectedSum, true)
\* when the request has a checksum; the file is deleted on a mismatch.
DownloadTo(dir, path, served, checksum) ==
    IF checksum # NoHash /\ Sha256(served) # checksum
    THEN [dir |-> [dir EXCEPT ![path] = NoFile], err |-> "checksum mismatch", fetched |-> FALSE,
          dest |-> NoPath]
    ELSE [dir |-> [dir EXCEPT ![path] = served], err |-> "nil", fetched |-> TRUE,
          dest |-> GetDownloadPath(path)]

\* Storage.FileExistsOrDownload
FileExistsOrDownload(dir, hashMethod, expectedHash, served, path) ==
    IF FileExistsWithHash(dir, path, hashMethod, expectedHash)
    THEN [dir |-> dir, err |-> "nil", fetched |-> FALSE, dest |-> GetDownloadPath(path)]
    ELSE DownloadTo(dir, path, served, expectedHash)

FetchVerifiers == { v \in Verifiers : v.keyring = {"k1"} }
FeedOptions == [Type : {"apt", "github"}, NoChanges : BOOLEAN]
Remotes ==
    [anchor : Documents, index : Indices, file : Blobs,
     changesDigest : {NoDigest} \cup { <<"sha256">> \o Sha256(d) : d \in Documents },
     fileDigest : FileDigests]

NoAnchor == Result(Nil, Nil, "none")
NoFileForTrust == [content |-> NoFile, Hash |-> NoHash]
FetchStart(pc) ==
    [pc |-> pc, anchor |-> NoAnchor, indexHash |-> NoHash, hashMethod |-> "",
     Hash |-> NoHash, fetched |-> FALSE, err |-> "nil"]

IdleF ==
    /\ feed = [Type |-> "apt", NoChanges |-> FALSE]
    /\ fverifier = [AcceptUnsigned |-> FALSE, IgnoreSignatures |-> FALSE, keyring |-> {}]
    /\ remote = [anchor |-> <<"t1">>, index |-> <<"t1">>, file |-> <<"b1">>,
                 changesDigest |-> NoDigest, fileDigest |-> NoDigest]
    /\ downloads = [p \in DownloadPaths |-> NoFile]
    /\ fetch = FetchStart("done")
    /\ trustedStore = NoFileForTrust

\* NewApt / NewGithub on a Storage whose download directory may hold the
\* files of earlier runs.  What the feed type never asks of the host is
\* left at one value.
InitF ==
    /\ feed \in { f \in FeedOptions : f.NoChanges => f.Type = "github" }
    /\ fverifier \in FetchVerifiers
    /\ remote \in Remotes
    /\ feed.Type = "apt" =>
          remote.changesDigest = NoDigest /\ remote.fileDigest = NoDigest
    /\ feed.Type = "github" => remote.index = <<"t1">>
    /\ feed.NoChanges => remote.anchor = <<"t1">> /\ remote.changesDigest = NoDigest
    /\ feed.Type = "github" /\ ~feed.NoChanges =>
          /\ remote.fileDigest = NoDigest
          /\ remote.changesDigest \in {NoDigest, <<"sha256">> \o Sha256(remote.anchor),
                                       <<"sha256">> \o Sha256(<<"t2">>)}
    /\ downloads \in [DownloadPaths -> Indices \cup Blobs \cup {NoFile}]
    /\ downloads["anchor"] = NoFile
    /\ downloads["index"] \in {NoFile, <<"t1">>}
    /\ downloads["index"] # NoFile => feed.Type = "apt"
    /\ downloads["file"] \in Blobs \cup {NoFile}
    /\ fetch = FetchStart(IF feed.NoChanges THEN "file" ELSE "anchor")
    /\ trustedStore = NoFileForTrust

FetchFailed(res, err) == [fetch EXCEPT !.pc = "done", !.anchor = res, !.err = err]

\* Apt.processDist up to processIndices: InRelease is downloaded without a
\* checksum and parsed by debext.ParseRelease, which calls VerifyAndClear.
ProcessDist ==
    /\ feed.Type = "apt"
    /\ fetch.pc = "anchor"
    /\ LET got == DownloadTo(downloads, "anchor", remote.anchor, NoHash)
           res == VerifyAndClear(fverifier, got.dir["anchor"], NoFault)
       IN  /\ downloads' = got.dir
           /\ fetch' = IF res.err # "nil" THEN FetchFailed(res, res.err)
                       ELSE [fetch EXCEPT !.pc = "index", !.anchor = res,
                                          !.indexHash = IndexHashIn(res.rc[1])]
    /\ UNCHANGED <<feed, fverifier, remote, trustedStore>>
    /\ UNCHANGED notF

\* Apt.processIndex: the index is taken from the download directory or
\* downloaded against the hash the Release declares, then parsed.
ProcessIndex ==
    /\ feed.Type = "apt"
    /\ fetch.pc = "index"
    /\ LET got == FileExistsOrDownload(downloads, "sha256", fetch.indexHash,
                                       remote.index, "index")
       IN  /\ downloads' = got.dir
           /\ fetch' = IF got.err # "nil" THEN FetchFailed(fetch.anchor, got.err)
                       ELSE [fetch EXCEPT !.pc = "file", !.hashMethod = "sha256",
                                          !.Hash = FileHashIn(got.dir["index"][1])]
    /\ UNCHANGED <<feed, fverifier, remote, trustedStore>>
    /\ UNCHANGED notF

\* Github.processChangesFile: the .changes is fetched with the digest the
\* host advertises and parsed by debext.ParseChanges under the verifier's
\* AcceptUnsigned and IgnoreSignatures.
ProcessChangesFile ==
    /\ feed.Type = "github" /\ ~feed.NoChanges
    /\ fetch.pc = "anchor"
    /\ LET digest == ParseGitHubDigest(remote.changesDigest)
           got == FileExistsOrDownload(downloads, digest[1], digest[2],
                                       remote.anchor, "anchor")
           res == VerifyAndClear(fverifier, got.dir["anchor"], NoFault)
       IN  /\ downloads' = got.dir
           /\ fetch' = IF got.err # "nil" THEN FetchFailed(NoAnchor, got.err)
                       ELSE IF res.err # "nil" THEN FetchFailed(res, res.err)
                       ELSE [fetch EXCEPT !.pc = "file", !.anchor = res,
                                          !.hashMethod = "sha256",
                                          !.Hash = FileHashIn(res.rc[1])]
    /\ UNCHANGED <<feed, fverifier, remote, trustedStore>>
    /\ UNCHANGED notF

\* The FileExistsOrDownload call for the package file and the FileForTrust
\* that records its hash.
FetchPackageFile(hashMethod, hash) ==
    LET got == FileExistsOrDownload(downloads, hashMethod, hash, remote.file, "file")
    IN  /\ downloads' = got.dir
        /\ fetch' = IF got.err # "nil" THEN FetchFailed(fetch.anchor, got.err)
                    ELSE [fetch EXCEPT !.pc = "link", !.hashMethod = hashMethod,
                                       !.Hash = hash, !.fetched = got.fetched]
        /\ UNCHANGED <<feed, fverifier, remote, trustedStore>>
        /\ UNCHANGED notF

\* Apt.downloadPackageFiles: sha256 := file.Checksums.SHA256 of the index.
DownloadPackageFiles ==
    /\ feed.Type = "apt"
    /\ fetch.pc = "file"
    /\ FetchPackageFile("sha256", fetch.Hash)

\* Github.downloadReferencedFileWithAsset: the checksum of the .changes.
DownloadReferencedFileWithAsset ==
    /\ feed.Type = "github" /\ ~feed.NoChanges
    /\ fetch.pc = "file"
    /\ FetchPackageFile("sha256", fetch.Hash)

\* Github.processPackageFileNoChanges and processKeptBinaryPackageNoChanges:
\* the digest of the asset is the only hash there is.
ProcessPackageFileNoChanges ==
    /\ feed.NoChanges
    /\ fetch.pc = "file"
    /\ LET digest == ParseGitHubDigest(remote.fileDigest)
       IN  FetchPackageFile(digest[1], digest[2])

\* Storage.LinkFilesToTrusted for the file: the download is hardlinked into
\* the trusted store.
PromoteToTrusted ==
    /\ fetch.pc = "link"
    /\ trustedStore' = [content |-> downloads["file"], Hash |-> fetch.Hash]
    /\ fetch' = [fetch EXCEPT !.pc = "done"]
    /\ UNCHANGED <<feed, fverifier, remote, downloads>>
    /\ UNCHANGED notF

NextF ==
    \/ ProcessDist
    \/ ProcessIndex
    \/ ProcessChangesFile
    \/ DownloadPackageFiles
    \/ DownloadReferencedFileWithAsset
    \/ ProcessPackageFileNoChanges
    \/ PromoteToTrusted

InTrusted == trustedStore # NoFileForTrust
ChecksumEnforced ==
    trustedStore.Hash # NoHash /\ Sha256(trustedStore.content) = trustedStore.Hash
AnchorUnsignedAccepted ==
    fetch.anchor.err = "nil" /\ ~IsClearSigned(downloads["anchor"]) /\ fverifier.AcceptUnsigned
AnchorSignatureVerified == fetch.anchor.err = "nil" /\ fetch.anchor.keys # Nil
\* The hash the anchor's cleartext declares for the file, through the index
\* for an APT feed.
DeclaredByAnchor ==
    /\ fetch.anchor.err = "nil"
    /\ IF feed.Type = "apt"
       THEN /\ Sha256(downloads["index"]) = IndexHashIn(fetch.anchor.rc[1])
            /\ trustedStore.Hash = FileHashIn(downloads["index"][1])
       ELSE trustedStore.Hash = FileHashIn(fetch.anchor.rc[1])

Reused(dir, path) == [dir |-> dir, err |-> "nil", fetched |-> FALSE, dest |-> GetDownloadPath(path)]

NoMatchKeep == "NoMatchKeep"
NoMatchIgnore == "NoMatchIgnore"
NoMatchError == "NoMatchError"
NoMatchBehaviors == {NoMatchKeep, NoMatchIgnore, NoMatchError}

\* parsePattern: a segment is "*" or "#"; the first character between two
\* segments is their delimiter; trackedIndices are counted from 0.
RECURSIVE ParsePatternFrom(_, _, _)
ParsePatternFrom(s, p, delimBuf) ==
    IF s = <<>>
    THEN IF p.segmentCount = 0 THEN [p EXCEPT !.err = "ErrNoSegments"] ELSE p
    ELSE IF s[1] \in {"*", "#"}
    THEN IF p.segmentCount > 0 /\ delimBuf = <<>>
         THEN [p EXCEPT !.err = "ErrExpectedDelimiter"]
         ELSE ParsePatternFrom(Tail(s),
                  [delimiters |-> IF p.segmentCount > 0
                                  THEN Append(p.delimiters, delimBuf[1])
                                  ELSE p.delimiters,
                   trackedIndices |-> IF s[1] = "#"
                                      THEN Append(p.trackedIndices, p.segmentCount)
                                      ELSE p.trackedIndices,
                   segmentCount |-> p.segmentCount + 1,
                   err |-> "nil"],
                  <<>>)
    ELSE ParsePatternFrom(Tail(s), p, Append(delimBuf, s[1]))

EmptyPattern == [delimiters |-> <<>>, trackedIndices |-> <<>>, segmentCount |-> 0, err |-> "nil"]

parsePattern(s) ==
    IF s = <<>> THEN [EmptyPattern EXCEPT !.err = "ErrEmptyPattern"]
    ELSE ParsePatternFrom(s, EmptyPattern, <<>>)

Contains(seq, x) == \E i \in 1..Len(seq) : seq[i] = x

\* parseVersion: the version is cut at every character that is one of the
\* pattern's delimiters, empty pieces are dropped, and the number of pieces
\* must be the pattern's segment count.
RECURSIVE SplitVersion(_, _, _, _)
SplitVersion(s, delimiters, segments, buf) ==
    IF s = <<>> THEN IF buf # <<>> THEN Append(segments, buf) ELSE segments
    ELSE IF Contains(delimiters, s[1])
    THEN SplitVersion(Tail(s), delimiters,
                      IF buf # <<>> THEN Append(segments, buf) ELSE segments, <<>>)
    ELSE SplitVersion(Tail(s), delimiters, segments, Append(buf, s[1]))

NoVersion == [raw |-> <<>>, segments |-> <<>>, err |-> "ErrVersionNotMatchPattern"]

parseVersion(s, p) ==
    IF s = <<>> THEN NoVersion
    ELSE LET segments == SplitVersion(s, p.delimiters, <<>>, <<>>)
         IN  IF Len(segments) # p.segmentCount THEN NoVersion
             ELSE [raw |-> s, segments |-> segments, err |-> "nil"]

\* The byte values of the characters that occur in the versions below.
Ascii(c) ==
    CASE c = "+" -> 43 [] c = "-" -> 45 [] c = "." -> 46 [] c = ":" -> 58
      [] c = "a" -> 97 [] c = "b" -> 98 [] c = "~" -> 126
      [] OTHER -> 48 + DigitValue(c)
IsLetter(c) == c \in {"a", "b"}

\* extractPart: the digits (isDigit) or non-digits of s from position start.
extractPart(s, start, isDigit) ==
    LET rest == SubSeq(s, start + 1, Len(s))
        n == PrefixLen(rest, isDigit)
    IN  <<SubSeq(rest, 1, n), n>>

\* debianLexicalCompare: "~" before everything, the end of the string next,
\* letters before non-letters, then the byte value.
RECURSIVE debianLexicalCompare(_, _)
debianLexicalCompare(a, b) ==
    IF a = <<>> /\ b = <<>> THEN 0
    ELSE LET aTilde == a # <<>> /\ a[1] = "~"
             bTilde == b # <<>> /\ b[1] = "~"
         IN  IF aTilde /\ ~bTilde THEN -1
             ELSE IF ~aTilde /\ bTilde THEN 1
             ELSE IF a = <<>> THEN -1
             ELSE IF b = <<>> THEN 1
             ELSE IF IsLetter(a[1]) # IsLetter(b[1])
             THEN IF IsLetter(a[1]) THEN -1 ELSE 1
             ELSE IF a[1] # b[1]
             THEN IF Ascii(a[1]) < Ascii(b[1]) THEN -1 ELSE 1
             ELSE debianLexicalCompare(Tail(a), Tail(b))

\* parseInt: the empty string is 0.
parseInt(s) == NumericValue(s)

\* compareSegments: alternately a non-digit part and a digit part of each
\* segment are compared until both are used up.
RECURSIVE CompareSegmentsFrom(_, _, _, _)
CompareSegmentsFrom(a, b, i, j) ==
    IF ~(i < Len(a) \/ j < Len(b)) THEN 0
    ELSE LET nonDigitA == extractPart(a, i, FALSE)
             nonDigitB == extractPart(b, j, FALSE)
             lex == debianLexicalCompare(nonDigitA[1], nonDigitB[1])
             i2 == i + nonDigitA[2]
             j2 == j + nonDigitB[2]
             digitA == extractPart(a, i2, TRUE)
             digitB == extractPart(b, j2, TRUE)
             numA == parseInt(digitA[1])
             numB == parseInt(digitB[1])
         IN  IF lex # 0 THEN lex
             ELSE IF numA # numB THEN (IF numA < numB THEN -1 ELSE 1)
             ELSE CompareSegmentsFrom(a, b, i2 + digitA[2], j2 + digitB[2])

compareSegments(a, b) == CompareSegmentsFrom(a, b, 0, 0)

\* RetentionFilter.compareVersions: segment by segment, a's length decides.
RECURSIVE CompareVersionSegments(_, _, _)
CompareVersionSegments(a, b, i) ==
    IF i > Len(a.segments) THEN 0
    ELSE LET cmp == compareSegments(a.segments[i], b.segments[i])
         IN  IF cmp # 0 THEN cmp ELSE CompareVersionSegments(a, b, i + 1)

compareVersions(a, b) == CompareVersionSegments(a, b, 1)

\* An item of the filter and the getVersion function it was built with.
Item(v) == [version |-> v]
getVersion(item) == item.version

\* RetentionRule and the patterns NewRetentionFilter parses from the rules.
Rule(pattern, amount) == [Pattern |-> pattern, Amount |-> amount]
Patterns(rules) == [i \in 1..Len(rules) |-> parsePattern(rules[i].Pattern)]

\* NewRetentionFilter: the error it returns for a rule list ("nil" for none).
RECURSIVE NewRetentionFilterErr(_, _)
NewRetentionFilterErr(rules, i) ==
    IF i > Len(rules) THEN "nil"
    ELSE LET p == parsePattern(rules[i].Pattern)
         IN  IF p.err # "nil" THEN p.err
             ELSE IF Len(rules[i].Amount) # Len(p.trackedIndices) THEN "ErrAmountMismatch"
             ELSE NewRetentionFilterErr(rules, i + 1)

\* findApplicableRules: the indices (from 1) of the matching patterns with
\* the most segments, in rule order.
RECURSIVE FindApplicableFrom(_, _, _, _, _)
FindApplicableFrom(patterns, versionStr, i, maxSegmentCount, applicableRules) ==
    IF i > Len(patterns) THEN applicableRules
    ELSE LET p == patterns[i]
         IN  IF parseVersion(versionStr, p).err # "nil"
             THEN FindApplicableFrom(patterns, versionStr, i + 1, maxSegmentCount,
                                     applicableRules)
             ELSE IF p.segmentCount > maxSegmentCount
             THEN FindApplicableFrom(patterns, versionStr, i + 1, p.segmentCount, <<i>>)
             ELSE IF p.segmentCount = maxSegmentCount
             THEN FindApplicableFrom(patterns, versionStr, i + 1, maxSegmentCount,
                                     Append(applicableRules, i))
             ELSE FindApplicableFrom(patterns, versionStr, i + 1, maxSegmentCount,
                                     applicableRules)

\* findApplicableRules without the comparison of segment counts.
findMatchingRules(patterns, versionStr) ==
    SelectSeq([i \in 1..Len(patterns) |-> i],
              LAMBDA i : parseVersion(versionStr, patterns[i]).err = "nil")

findApplicableRules(patterns, versionStr) ==
    FindApplicableFrom(patterns, versionStr, 1, 0, <<>>)

\* strings.Join(segments, ":")
RECURSIVE Join(_)
Join(segments) ==
    IF segments = <<>> THEN <<>>
    ELSE IF Len(segments) = 1 THEN segments[1]
    ELSE segments[1] \o <<":">> \o Join(Tail(segments))

\* The leaf of retainLevel with the comparison turned around.
RECURSIVE WorstFrom(_, _, _)
WorstFrom(versions, i, best) ==
    IF i > Len(versions) THEN best
    ELSE WorstFrom(versions, i + 1,
                   IF compareVersions(versions[i], best) < 0 THEN versions[i] ELSE best)

\* The leaf of retainLevel: the first version of the list that no later
\* version exceeds in the sense of compareVersions.
RECURSIVE BestFrom(_, _, _)
BestFrom(versions, i, best) ==
    IF i > Len(versions) THEN best
    ELSE BestFrom(versions, i + 1,
                  IF compareVersions(versions[i], best) > 0 THEN versions[i] ELSE best)

\* One union for every way of taking one set from each alt[x].
RECURSIVE UnionChoices(_)
UnionChoices(alt) ==
    IF DOMAIN alt = {} THEN {{}}
    ELSE LET x == CHOOSE y \in DOMAIN alt : TRUE
             rest == UnionChoices([y \in DOMAIN alt \ {x} |-> alt[y]])
         IN  { a \cup b : a \in alt[x], b \in rest }

MinInt(a, b) == IF a < b THEN a ELSE b

\* retainLevel without the cut: every bucket is kept.
AllValues(values, amount) == {values}

\* The cut of retainLevel taken from the wrong end of the order.
BottomValues(values, amount) ==
    LET count == MinInt(amount, Cardinality(values))
    IN  { S \in SUBSET values :
            /\ Cardinality(S) = (IF count < 0 THEN 0 ELSE count)
            /\ \A a \in S, b \in values \ S : compareSegments(a, b) <= 0 }

\* The buckets retainLevel may keep of a group: slices.SortFunc orders the
\* value/versions pairs, which come out of a map in any order, by descending
\* compareSegments; values that compare equal end up in either order, and
\* the first min(amount, len(pairs)) pairs are kept.
TopValues(values, amount) ==
    LET count == MinInt(amount, Cardinality(values))
    IN  { S \in SUBSET values :
            /\ Cardinality(S) = (IF count < 0 THEN 0 ELSE count)
            /\ \A a \in S, b \in values \ S : compareSegments(a, b) >= 0 }

\* retainLevel: the set of the results it can return (each a set of raw
\* versions); level counts from 0 as in the code.
RECURSIVE retainLevel(_, _, _, _)
retainLevel(versions, trackedIndices, amounts, level) ==
    IF level >= Len(trackedIndices)
    THEN IF versions = <<>> THEN {{}}
         ELSE {{BestFrom(versions, 2, versions[1]).raw}}
    ELSE LET idx == trackedIndices[level + 1]
             amount == amounts[level + 1]
             KeyOfVersion(v) == Join(SubSeq(v.segments, 1, idx))
             keys == { KeyOfVersion(versions[i]) : i \in 1..Len(versions) }
             Group(key) == SelectSeq(versions, LAMBDA v : KeyOfVersion(v) = key)
             Values(group) == { group[i].segments[idx + 1] : i \in 1..Len(group) }
             Bucket(group, val) == SelectSeq(group, LAMBDA v : v.segments[idx + 1] = val)
             GroupResults(group) ==
                 UNION { UnionChoices([val \in S |->
                             retainLevel(Bucket(group, val), trackedIndices, amounts,
                                         level + 1)])
                           : S \in TopValues(Values(group), amount) }
         IN  UnionChoices([key \in keys |-> GroupResults(Group(key))])

\* applyRetention
applyRetention(versions, trackedIndices, amounts) ==
    IF versions = <<>> THEN {{}} ELSE retainLevel(versions, trackedIndices, amounts, 0)

MapSeq(seq, Op(_)) == [i \in 1..Len(seq) |-> Op(seq[i])]

\* RetentionFilter.Filter: the results it can return for a list of items,
\* each [kept |-> the items kept, in input order, err |-> the error].
Filter(rules, noMatchBehavior, items) ==
    LET patterns == Patterns(rules)
        Applicable(item) == findApplicableRules(patterns, getVersion(item))
        noMatchItems == SelectSeq(items, LAMBDA item : Applicable(item) = <<>>)
        ruleGroups == [ruleIdx \in { r \in 1..Len(rules) :
                                       \E i \in 1..Len(items) :
                                           Contains(Applicable(items[i]), r) } |->
                          SelectSeq(items, LAMBDA item : Contains(Applicable(item), ruleIdx))]
        RuleKept(ruleIdx) ==
            applyRetention(
                MapSeq(ruleGroups[ruleIdx],
                       LAMBDA item : parseVersion(getVersion(item), patterns[ruleIdx])),
                patterns[ruleIdx].trackedIndices, rules[ruleIdx].Amount)
        noMatchKept == IF noMatchBehavior = NoMatchKeep
                       THEN { getVersion(noMatchItems[i]) : i \in 1..Len(noMatchItems) }
                       ELSE {}
    IN  IF noMatchBehavior = NoMatchError /\ noMatchItems # <<>>
        THEN { [kept |-> <<>>, err |-> "ErrNoMatchingPattern"] }
        ELSE { [kept |-> SelectSeq(items, LAMBDA item :
                                      getVersion(item) \in keepSet \cup noMatchKept),
                err |-> "nil"]
                 : keepSet \in UnionChoices([ruleIdx \in DOMAIN ruleGroups |-> RuleKept(ruleIdx)]) }

\* The rule lists and versions the filters are run on: the cases of
\* TestRetentionFilter_Filter "keep last 3 minors" and "keep last 2 patches
\* per minor", the same with an amount no input reaches, versions whose
\* segments compare equal without being the same text, a pattern with an
\* untracked segment between two tracked ones, and rules of different
\* segment counts.

MinorVersions ==
    { <<"1", ".", "3", "4", ".", "3", "-", "2">>,
      <<"1", ".", "3", "4", ".", "2", "-", "2">>,
      <<"1", ".", "3", "3", ".", "2", "-", "0">>,
      <<"1", ".", "3", "2", ".", "7", "-", "0">>,
      <<"1", ".", "3", "1", ".", "0", "-", "0">> }

PatchVersions ==
    { <<"1", ".", "3", "4", ".", "3", "-", "2">>,
      <<"1", ".", "3", "4", ".", "2", "-", "2">>,
      <<"1", ".", "3", "4", ".", "1", "-", "1">>,
      <<"1", ".", "3", "3", ".", "2", "-", "0">> }

EqualVersions ==
    { <<"1", ".", "0">>,
      <<"1", ".", "0", "0">>,
      <<"0", "1", ".", "1">>,
      <<"2", ".", "0">> }

BetweenVersions ==
    { <<"1", ".", "a", ".", "1">>,
      <<"1", ".", "b", ".", "2">>,
      <<"1", ".", "a", ".", "2">>,
      <<"2", ".", "a", ".", "1">> }

MixedVersions ==
    { <<"3">>,
      <<"1", ".", "2">>,
      <<"1", ".", "3">>,
      <<"2", ".", "1">> }

PlainVersions ==
    { <<"1", ".", "2">>,
      <<"1", ".", "3">>,
      <<"2", ".", "1">>,
      <<"7">> }

Scenarios ==
    { [rules |-> <<Rule(<<"*", ".", "#", ".", "*", "-", "*">>, <<3>>)>>, versions |-> MinorVersions,
       behaviors |-> {NoMatchKeep}, runs |-> {"X"}],
      [rules |-> <<Rule(<<"*", ".", "#", ".", "*", "-", "*">>, <<5>>)>>, versions |-> PatchVersions,
       behaviors |-> {NoMatchKeep}, runs |-> {"X", "Y"}],
      [rules |-> <<Rule(<<"*", ".", "*", ".", "#", "-", "*">>, <<2>>)>>, versions |-> PatchVersions,
       behaviors |-> {NoMatchKeep}, runs |-> {"X", "Y"}],
      [rules |-> <<Rule(<<"#", ".", "*">>, <<1>>)>>, versions |-> EqualVersions,
       behaviors |-> {NoMatchKeep}, runs |-> {"X", "Y"}],
      [rules |-> <<Rule(<<"#", ".", "*", ".", "#">>, <<1, 1>>)>>, versions |-> BetweenVersions,
       behaviors |-> {NoMatchKeep}, runs |-> {"X", "Y"}],
      [rules |-> <<Rule(<<"#">>, <<5>>), Rule(<<"*", ".", "#">>, <<1>>), Rule(<<"#", ".", "*">>, <<1>>)>>,
       versions |-> MixedVersions, behaviors |-> {NoMatchKeep}, runs |-> {"X", "Y"}],
      [rules |-> <<Rule(<<"*", ".", "#">>, <<5>>)>>, versions |-> PlainVersions,
       behaviors |-> NoMatchBehaviors, runs |-> {"X", "Y"}] }

\* One filter, X, or two filters of the same rules, X and Y, that are given
\* the same items.
Runs == {"X", "Y"}
NoResult == [kept |-> <<>>, err |-> "none"]
NoFilter == [kept |-> <<>>, err |-> "no filter"]

IdleE ==
    /\ efilter = [rules |-> <<>>, noMatchBehavior |-> NoMatchKeep]
    /\ epending = [run \in Runs |-> {}]
    /\ eitems = [run \in Runs |-> <<>>]
    /\ eresult = [run \in Runs |-> NoResult]

\* NewRetentionFilter, once or twice, and the items that will be added.
InitE ==
    \E s \in Scenarios : \E input \in SUBSET s.versions :
        /\ input # {}
        /\ NewRetentionFilterErr(s.rules, 1) = "nil"
        /\ efilter \in [rules : {s.rules}, noMatchBehavior : s.behaviors]
        /\ epending = [run \in Runs |->
                          IF run \in s.runs THEN { Item(v) : v \in input } ELSE {}]
        /\ eitems = [run \in Runs |-> <<>>]
        /\ eresult = [run \in Runs |-> IF run \in s.runs THEN NoResult ELSE NoFilter]

\* RetentionFilter.Add, under f.mu: with NoMatchError or NoMatchIgnore an
\* item no rule applies to is not stored.
RetentionAdd(run, item) ==
    /\ item \in epending[run]
    /\ run = "Y" => eresult["X"] # NoResult
    /\ epending' = [epending EXCEPT ![run] = @ \ {item}]
    /\ eitems' =
          IF /\ efilter.noMatchBehavior \in {NoMatchError, NoMatchIgnore}
             /\ findApplicableRules(Patterns(efilter.rules), getVersion(item)) = <<>>
          THEN eitems
          ELSE [eitems EXCEPT ![run] = Append(@, item)]
    /\ UNCHANGED <<efilter, eresult>>
    /\ UNCHANGED notE

\* RetentionFilter.Kept, under f.mu, after the Add calls: Filter(f.items).
RetentionKept(run) ==
    /\ epending[run] = {}
    /\ eresult[run] = NoResult
    /\ \E res \in Filter(efilter.rules, efilter.noMatchBehavior, eitems[run]) :
          eresult' = [eresult EXCEPT ![run] = res]
    /\ UNCHANGED <<efilter, epending, eitems>>
    /\ UNCHANGED notE

NextE ==
    \E run \in Runs :
        \/ \E item \in epending[run] : RetentionAdd(run, item)
        \/ RetentionKept(run)

SeqToSet(seq) == { seq[i] : i \in 1..Len(seq) }
KeptDone(run) == eresult[run].err = "nil"
KeptVersions(run) == { getVersion(item) : item \in SeqToSet(eresult[run].kept) }
AddedVersions(run) == { getVersion(item) : item \in SeqToSet(eitems[run]) }

\* C11: the items kept are the same for every order of the Add calls.
C11_PermutationInvariant ==
    (KeptDone("X") /\ KeptDone("Y")) => KeptVersions("X") = KeptVersions("Y")

\* The versions of a run's items that the pattern of rule r parses.
ParsedBy(run, r) ==
    LET p == Patterns(efilter.rules)[r]
    IN  { parseVersion(v, p) : v \in { w \in AddedVersions(run) : parseVersion(w, p).err = "nil" } }

\* What a retention of `versions` from tracked level k (from 1) on has to
\* look like when keptRaw are the versions kept.  At level k the versions are
\* grouped either by every segment left of the k-th tracked one (byPrefix),
\* or, past the first level, not at all: the bucket of the previous level is
\* the group.  In each group the values of the tracked segment that have a
\* kept version are min(amount[k], number of values) many and none of them
\* is below a value without one; a leaf has one kept version, which no
\* version of the leaf exceeds.
RECURSIVE RetentionHolds(_, _, _, _, _, _)
RetentionHolds(versions, trackedIndices, amounts, k, keptRaw, byPrefix) ==
    IF k > Len(trackedIndices)
    THEN \E best \in versions :
            /\ { v.raw : v \in versions } \cap keptRaw = {best.raw}
            /\ \A v \in versions : compareVersions(v, best) <= 0
    ELSE LET idx == trackedIndices[k]
             GroupKey(v) == IF byPrefix \/ k = 1 THEN SubSeq(v.segments, 1, idx) ELSE <<>>
             groups == { { v \in versions : GroupKey(v) = GroupKey(w) } : w \in versions }
             Bucket(group, val) == { v \in group : v.segments[idx + 1] = val }
             Values(group) == { v.segments[idx + 1] : v \in group }
             KeptValues(group) ==
                 { val \in Values(group) : \E v \in Bucket(group, val) : v.raw \in keptRaw }
             count(group) == MinInt(amounts[k], Cardinality(Values(group)))
         IN  \A group \in groups :
                /\ Cardinality(KeptValues(group)) = (IF count(group) < 0 THEN 0 ELSE count(group))
                /\ \A a \in KeptValues(group), b \in Values(group) \ KeptValues(group) :
                      compareSegments(a, b) >= 0
                /\ \A val \in KeptValues(group) :
                      RetentionHolds(Bucket(group, val), trackedIndices, amounts, k + 1,
                                     keptRaw, byPrefix)

OneRule == Len(efilter.rules) = 1

RuleRetentionHolds(run, byPrefix) ==
    (KeptDone(run) /\ OneRule /\ ParsedBy(run, 1) # {}) =>
        RetentionHolds(ParsedBy(run, 1), Patterns(efilter.rules)[1].trackedIndices,
                       efilter.rules[1].Amount, 1, KeptVersions(run), byPrefix)

KeepLast3Minors(run) ==
    /\ KeptDone(run)
    /\ efilter.rules = <<Rule(<<"*", ".", "#", ".", "*", "-", "*">>, <<3>>)>>
    /\ AddedVersions(run) = MinorVersions

KeepLast3MinorsKept ==
    { <<"1", ".", "3", "4", ".", "3", "-", "2">>,
      <<"1", ".", "3", "3", ".", "2", "-", "0">>,
      <<"1", ".", "3", "2", ".", "7", "-", "0">> }

\* C12 as stated: the matched versions are grouped by the segments left of
\* the first tracked segment; inside a group, and then inside every kept
\* bucket as a whole, the kept versions cover exactly the min(amount[k],
\* number of distinct values) greatest values of the k-th tracked segment,
\* each leaf contributes its single maximal version, and "keep last 3
\* minors" keeps 1.34.3-2, 1.33.2-0 and 1.32.7-0.
C12_TopValuesPerBucket ==
    \A run \in Runs :
        /\ RuleRetentionHolds(run, FALSE)
        /\ KeepLast3Minors(run) => KeptVersions(run) = KeepLast3MinorsKept

\* C12 as the code has it: at every tracked level the versions are grouped
\* by all segments left of the k-th tracked one; in each such group the kept
\* versions cover exactly min(amount[k], number of distinct values) values
\* of the k-th tracked segment, none of them below a value that is not kept,
\* recursively inside each kept bucket; a leaf contributes one version that
\* no version of the leaf exceeds; "keep last 3 minors" keeps 1.34.3-2,
\* 1.33.2-0 and 1.32.7-0.
C12_TopValuesPerPrefixGroup ==
    \A run \in Runs :
        /\ RuleRetentionHolds(run, TRUE)
        /\ KeepLast3Minors(run) => KeptVersions(run) = KeepLast3MinorsKept

C12_Witness ==
    /\ KeepLast3Minors("X")
    /\ KeptVersions("X") = KeepLast3MinorsKept

\* The parsed versions of rule r that a run kept.
KeptParsed(run, r) == { v \in ParsedBy(run, r) : v.raw \in KeptVersions(run) }

\* The values of the tracked segments of v at the levels below k.
TrackedBelow(v, trackedIndices, k) == [j \in 1..(k - 1) |-> v.segments[trackedIndices[j] + 1]]

\* The bucket of the previous level as the statement has it: the versions
\* that share the segments left of the first tracked segment and the values
\* of the tracked segments below level k.
SameBucket(v, w, trackedIndices, k) ==
    /\ SubSeq(v.segments, 1, trackedIndices[1]) = SubSeq(w.segments, 1, trackedIndices[1])
    /\ TrackedBelow(v, trackedIndices, k) = TrackedBelow(w, trackedIndices, k)

\* The group of level k as retainLevel keys it: the versions that share
\* every segment left of the k-th tracked one.
SamePrefix(v, w, trackedIndices, k) ==
    SubSeq(v.segments, 1, trackedIndices[k]) = SubSeq(w.segments, 1, trackedIndices[k])

AmountBounds(run, Same(_, _, _, _)) ==
    (KeptDone(run) /\ OneRule) =>
        LET trackedIndices == Patterns(efilter.rules)[1].trackedIndices
            amounts == efilter.rules[1].Amount
        IN  \A k \in 1..Len(trackedIndices) : \A w \in KeptParsed(run, 1) :
                Cardinality({ v.segments[trackedIndices[k] + 1] :
                                v \in { u \in KeptParsed(run, 1) :
                                          Same(u, w, trackedIndices, k) } })
                    <= (IF amounts[k] < 0 THEN 0 ELSE amounts[k])

\* C13 as stated: the groups of a rule are given by the segments left of the
\* first tracked segment alone and a kept bucket is split only by the value
\* of the next tracked segment, so among the kept versions of one bucket of
\* level k-1 there are at most amount[k] distinct values of the k-th tracked
\* segment, whatever the untracked segments in between.
C13_AmountBoundsPerBucket == \A run \in Runs : AmountBounds(run, SameBucket)

\* C13 as the code has it: at level k the versions are grouped by every
\* segment left of the k-th tracked segment, untracked ones included, and
\* among the kept versions of one such group there are at most amount[k]
\* distinct values of the k-th tracked segment.
C13_AmountBoundsPerPrefixGroup == \A run \in Runs : AmountBounds(run, SamePrefix)

\* Two kept versions of one first-level bucket that differ in an untracked
\* segment between the tracked ones and in the second tracked segment, under
\* amounts [1, 1].
C13_Witness ==
    /\ KeptDone("X") /\ OneRule
    /\ efilter.rules[1].Amount = <<1, 1>>
    /\ LET trackedIndices == Patterns(efilter.rules)[1].trackedIndices
       IN  \E v, w \in KeptParsed("X", 1) :
              /\ SameBucket(v, w, trackedIndices, 2)
              /\ ~SamePrefix(v, w, trackedIndices, 2)
              /\ v.segments[trackedIndices[2] + 1] # w.segments[trackedIndices[2] + 1]

\* Every amount of every rule is at least the number of items of the run.
Unbounded(run) ==
    \A r \in 1..Len(efilter.rules) : \A k \in 1..Len(efilter.rules[r].Amount) :
        efilter.rules[r].Amount[k] >= Len(eitems[run])

\* The rules findApplicableRules gives for a version, as a set.
Applicable(v) == SeqToSet(findApplicableRules(Patterns(efilter.rules), v))

\* Versions v and w end in the same leaf of rule r: r applies to both and
\* they have the same segments up to the last tracked one.
SameLeaf(v, w, r) ==
    LET p == Patterns(efilter.rules)[r]
        last == p.trackedIndices[Len(p.trackedIndices)] + 1
    IN  /\ r \in Applicable(v) \cap Applicable(w)
        /\ SubSeq(parseVersion(v, p).segments, 1, last)
              = SubSeq(parseVersion(w, p).segments, 1, last)

NotBelow(v, w, r) ==
    LET p == Patterns(efilter.rules)[r]
    IN  compareVersions(parseVersion(v, p), parseVersion(w, p)) >= 0

Matching(v) ==
    { r \in 1..Len(efilter.rules) : parseVersion(v, Patterns(efilter.rules)[r]).err = "nil" }
MostSpecific(v) ==
    { r \in Matching(v) :
        \A q \in Matching(v) :
            Patterns(efilter.rules)[q].segmentCount <= Patterns(efilter.rules)[r].segmentCount }

\* The retentions rule r can make of the items of a run it is most specific for.
MostSpecificKept(run, r) ==
    applyRetention(
        MapSeq(SelectSeq(eitems[run], LAMBDA item : r \in MostSpecific(getVersion(item))),
               LAMBDA item : parseVersion(getVersion(item), Patterns(efilter.rules)[r])),
        Patterns(efilter.rules)[r].trackedIndices, efilter.rules[r].Amount)

\* C15: an item is kept exactly if one of the matching rules of greatest
\* segment count keeps it among the items that rule is most specific for
\* (or, under NoMatchKeep, if no rule matches it); matching rules of fewer
\* segments take no part.
C15_MostSpecificRulesApply ==
    \A run \in Runs :
        KeptDone(run) =>
            \E keepSet \in UnionChoices([r \in 1..Len(efilter.rules) |-> MostSpecificKept(run, r)]) :
                KeptVersions(run) =
                    { v \in AddedVersions(run) :
                        \/ v \in keepSet
                        \/ MostSpecific(v) = {} /\ efilter.noMatchBehavior = NoMatchKeep }

\* 1.2 is dropped by both two-segment rules although the one-segment rule,
\* which matches it and keeps every value, keeps 3.
C15_Witness ==
    /\ KeptDone("X")
    /\ Len(efilter.rules) = 3
    /\ <<"1", ".", "2">> \in AddedVersions("X") \ KeptVersions("X")
    /\ Matching(<<"1", ".", "2">>) = {1, 2, 3}
    /\ MostSpecific(<<"1", ".", "2">>) = {2, 3}
    /\ <<"3">> \in KeptVersions("X")

(***************************************************************************)
(* Retention collector: GenericRetentionCollector (package common), the    *)
(* map dist -> component -> package name -> arch -> RetentionFilter that    *)
(* Add fills under c.mu and Kept reads.  An Add call is taken in the steps  *)
(* at which another goroutine can get in between: the Lock, the lookup of   *)
(* the filter, the creation of a missing filter with filter.Add, and the    *)
(* deferred Unlock.                                                         *)
(***************************************************************************)

\* The items: what getMetadata reads of a package (Source, Name,
\* Architecture) and its version, which the filter reads through getVersion.
Package(source, name, arch, v) ==
    [Source |-> source, Name |-> name, Architecture |-> arch, version |-> v]

\* The Add calls the goroutines make: dist, component, item.
AddCall(dist, component, item) == [dist |-> dist, component |-> component, item |-> item]
AddCalls ==
    { AddCall("d1", "main", Package("app", "app", "amd64", <<"1", ".", "0">>)),
      AddCall("d1", "main", Package("app", "app", "amd64", <<"1", ".", "1">>)),
      AddCall("d2", "main", Package("app", "app", "amd64", <<"1", ".", "0">>)),
      AddCall("d1", "debug", Package("app", "app", "amd64", <<"1", ".", "0">>)),
      AddCall("d1", "main", Package("app", "app", "arm64", <<"1", ".", "0">>)),
      AddCall("d1", "main", Package("app", "tool", "amd64", <<"1", ".", "0">>)),
      AddCall("d1", "main", Package("lib", "lib", "amd64", <<"1", ".", "0">>)) }

FilterKeys == {"d1", "d2"} \X {"main", "debug"} \X {"app", "tool", "lib"} \X {"amd64", "arm64"}

\* c.retentionPolicies: keep the highest minor of every major, for the
\* packages of source app.
retentionPolicies ==
    << [RetentionRule |-> Rule(<<"*", ".", "#">>, <<1>>), FromSources |-> <<"app">>] >>

\* MatchesGlobPatterns for patterns without wildcard or negation.
MatchesGlobPatterns(patterns, value) ==
    patterns = <<>> \/ \E i \in 1..Len(patterns) : patterns[i] = value

\* FilterBySource
FilterBySource(policies, sourceName) ==
    MapSeq(SelectSeq(policies, LAMBDA policy : MatchesGlobPatterns(policy.FromSources, sourceName)),
           LAMBDA policy : policy.RetentionRule)

\* The key Add files an item under: no arm64 filter is ever made.
FilterKeyOneArch(dist, component, item) == <<dist, component, item.Name, "amd64">>

\* c.filters[dist][component][packageName][arch]
FilterKey(dist, component, item) == <<dist, component, item.Name, item.Architecture>>

\* A sync.RWMutex that lets every writer in.
LockAlways(holders) == TRUE

\* c.mu.Lock(): no other goroutine holds the mutex.
LockFree(holders) == holders = {}

Goroutines == {"g1", "g2"}
NoFilterYet == [exists |-> FALSE, rules |-> <<>>, items |-> <<>>]
NotKept == [done |-> FALSE, items |-> <<>>]

IdleK ==
    /\ cfilters = [key \in FilterKeys |-> NoFilterYet]
    /\ cmu = {}
    /\ ccalls = [g \in Goroutines |-> <<>>]
    /\ cpc = [g \in Goroutines |-> "idle"]
    /\ cfilter = [g \in Goroutines |-> NoFilterYet]
    /\ creturned = [call \in AddCalls |-> 0]
    /\ ccreated = [key \in FilterKeys |-> 0]
    /\ ckept = NotKept

\* NewGenericRetentionCollector, and the calls each goroutine will make.
InitK ==
    /\ cfilters = [key \in FilterKeys |-> NoFilterYet]
    /\ cmu = {}
    /\ \E a, b, c \in AddCalls : ccalls = [g \in Goroutines |-> IF g = "g1" THEN <<a, b>> ELSE <<c>>]
    /\ cpc = [g \in Goroutines |-> "idle"]
    /\ cfilter = [g \in Goroutines |-> NoFilterYet]
    /\ creturned = [call \in AddCalls |-> 0]
    /\ ccreated = [key \in FilterKeys |-> 0]
    /\ ckept = NotKept

CallKey(g) == FilterKey(ccalls[g][1].dist, ccalls[g][1].component, ccalls[g][1].item)

\* Add: getMetadata and c.mu.Lock().
CollectorLock(g) ==
    /\ cpc[g] = "idle"
    /\ ccalls[g] # <<>>
    /\ LockFree(cmu)
    /\ cmu' = cmu \cup {g}
    /\ cpc' = [cpc EXCEPT ![g] = "locked"]
    /\ UNCHANGED <<cfilters, ccalls, cfilter, creturned, ccreated, ckept>>
    /\ UNCHANGED notK

\* Add: the nested maps are made where missing and the filter is looked up.
CollectorLookup(g) ==
    /\ cpc[g] = "locked"
    /\ cfilter' = [cfilter EXCEPT ![g] = cfilters[CallKey(g)]]
    /\ cpc' = [cpc EXCEPT ![g] = "found"]
    /\ UNCHANGED <<cfilters, cmu, ccalls, creturned, ccreated, ckept>>
    /\ UNCHANGED notK

\* Add: a missing filter is created from the rules of the item's source and
\* stored, and the item goes into the filter (filter.Add, under f.mu); a
\* rule list NewRetentionFilter rejects makes Add return the error.
CollectorStore(g) ==
    /\ cpc[g] = "found"
    /\ LET call == ccalls[g][1]
           key == CallKey(g)
           rules == FilterBySource(retentionPolicies, call.item.Source)
       IN  IF ~cfilter[g].exists /\ NewRetentionFilterErr(rules, 1) # "nil"
           THEN /\ cpc' = [cpc EXCEPT ![g] = "failed"]
                /\ UNCHANGED <<cfilters, ccreated>>
           ELSE /\ cfilters' =
                     [cfilters EXCEPT ![key] =
                        IF cfilter[g].exists
                        THEN [@ EXCEPT !.items = Append(@, call.item)]
                        ELSE [exists |-> TRUE, rules |-> rules, items |-> <<call.item>>]]
                /\ ccreated' = [ccreated EXCEPT ![key] = IF cfilter[g].exists THEN @ ELSE @ + 1]
                /\ cpc' = [cpc EXCEPT ![g] = "added"]
    /\ UNCHANGED <<cmu, ccalls, cfilter, creturned, ckept>>
    /\ UNCHANGED notK

\* Add: the deferred c.mu.Unlock() and the return.
CollectorUnlock(g) ==
    /\ cpc[g] \in {"added", "failed"}
    /\ cmu' = cmu \ {g}
    /\ creturned' = IF cpc[g] = "added"
                    THEN [creturned EXCEPT ![ccalls[g][1]] = @ + 1]
                    ELSE creturned
    /\ ccalls' = [ccalls EXCEPT ![g] = Tail(@)]
    /\ cpc' = [cpc EXCEPT ![g] = "idle"]
    /\ UNCHANGED <<cfilters, cfilter, ccreated, ckept>>
    /\ UNCHANGED notK

AllReturned == \A g \in Goroutines : ccalls[g] = <<>>

\* Kept, called when the goroutines are through: under c.mu.RLock() every
\* filter's Kept() is taken.
CollectorKept ==
    /\ AllReturned
    /\ cmu = {}
    /\ ~ckept.done
    /\ LET keys == { key \in FilterKeys : cfilters[key].exists }
           Results(key) == { res.kept : res \in Filter(cfilters[key].rules, NoMatchKeep,
                                                        cfilters[key].items) }
       IN  \E items \in [keys -> UNION { Results(key) : key \in keys }] :
              /\ \A key \in keys : items[key] \in Results(key)
              /\ ckept' = [done |-> TRUE, items |-> items]
    /\ UNCHANGED <<cfilters, cmu, ccalls, cpc, cfilter, creturned, ccreated>>
    /\ UNCHANGED notK

NextK ==
    \/ \E g \in Goroutines :
          \/ CollectorLock(g)
          \/ CollectorLookup(g)
          \/ CollectorStore(g)
          \/ CollectorUnlock(g)
    \/ CollectorKept

\* How often item occurs in a sequence of items.
Occurrences(seq, item) == Cardinality({ i \in 1..Len(seq) : seq[i] = item })

\* The Add calls that file their item under a key.
CallsOfKey(key) ==
    { call \in AddCalls :
        key = <<call.dist, call.component, call.item.Name, call.item.Architecture>> }

\* The goroutine whose Add call is storing under the key.
Storing(g, key) == cpc[g] = "found" /\ ccalls[g][1] \in CallsOfKey(key)

\* C16: retention is applied per (distribution, component, name,
\* architecture): the filter of a key changes only by an Add under that key,
\* it holds items of that key only, and what Kept returns for the key is a
\* retention of the items of that filter under the rules of their source.
C16_KeptPerKeyOnly ==
    /\ [][\A key \in FilterKeys :
            cfilters'[key] # cfilters[key] => \E g \in Goroutines : Storing(g, key)]_vars
    /\ [](\A key \in FilterKeys :
            /\ \A i \in 1..Len(cfilters[key].items) :
                  \E call \in CallsOfKey(key) : call.item = cfilters[key].items[i]
            /\ (ckept.done /\ key \in DOMAIN ckept.items) =>
                  \E res \in Filter(FilterBySource(retentionPolicies,
                                                   cfilters[key].items[1].Source),
                                    NoMatchKeep, cfilters[key].items) :
                      ckept.items[key] = res.kept)

\* Kept has returned what two keys hold: app/amd64 of d1 main was given 1.0
\* and 1.1 and keeps 1.1, while 1.0 is kept under another key.
C16_Witness ==
    /\ ckept.done
    /\ <<"d1", "main", "app", "amd64">> \in DOMAIN ckept.items
    /\ Len(cfilters[<<"d1", "main", "app", "amd64">>].items) = 2
    /\ Len(ckept.items[<<"d1", "main", "app", "amd64">>]) = 1
    /\ ckept.items[<<"d1", "main", "app", "amd64">>][1].version = <<"1", ".", "1">>
    /\ \E key \in DOMAIN ckept.items :
          /\ key # <<"d1", "main", "app", "amd64">>
          /\ Len(ckept.items[key]) = 1
          /\ ckept.items[key][1].version = <<"1", ".", "0">>

\* C17: whatever the interleaving of the Add calls, at most one filter is
\* created per key; when all of them have returned every filter holds the
\* items of the calls of its key that returned nil, each as often as it was
\* added; and Kept then returns for every key a retention of these items.
C17_ConcurrentAddSafe ==
    /\ \A key \in FilterKeys : ccreated[key] <= 1
    /\ AllReturned =>
          \A key \in FilterKeys : \A call \in CallsOfKey(key) :
              Occurrences(cfilters[key].items, call.item) = creturned[call]
    /\ ckept.done =>
          /\ DOMAIN ckept.items = { key \in FilterKeys :
                                      \E call \in CallsOfKey(key) : creturned[call] > 0 }
          /\ \A key \in DOMAIN ckept.items :
                \E res \in Filter(cfilters[key].rules, NoMatchKeep, cfilters[key].items) :
                    ckept.items[key] = res.kept

\* Kept has returned a key that holds three items: the two of g1, which are
\* the same, and between them the one of g2.
C17_Witness ==
    /\ ckept.done
    /\ \E key \in DOMAIN ckept.items :
          /\ Len(cfilters[key].items) = 3
          /\ cfilters[key].items[1] = cfilters[key].items[3]
          /\ cfilters[key].items[1] # cfilters[key].items[2]

(***************************************************************************)
(* Apt.Compose: the sequence loadRedirectMaps, processFeed for every feed  *)
(* (a task group), buildRepository, generateRepository (a task group of     *)
(* generateDistribution, each writing its indices and then its signed       *)
(* Release), and what becomes of an error in each of them.  Which steps     *)
(* fail is up to the file system, the trusted store and the signer.         *)
(***************************************************************************)
ComposeFeeds == {"f1", "f2"}
\* The packages the collector kept, with the distribution they belong to.
KeptPackages == {"p1", "p2"}
DistOf(p) == IF p = "p1" THEN "d1" ELSE "d2"

LoadStep == <<"load-maps", "redirects.yaml">>
IngestStep(feedName) == <<"ingest", feedName>>
MaterializeStep(p) == <<"materialize", p>>
EmitStep(dist) == <<"emit", dist>>
SignStep(dist) == <<"sign", dist>>
ComposeSteps ==
    {LoadStep} \cup { IngestStep(f) : f \in ComposeFeeds }
        \cup { MaterializeStep(p) : p \in KeptPackages }
        \cup { EmitStep(DistOf(p)) : p \in KeptPackages }
        \cup { SignStep(DistOf(p)) : p \in KeptPackages }

Executed(step) == \E i \in 1..Len(ztrace) : ztrace[i].step = step
ExecutedOk(step) == \E i \in 1..Len(ztrace) : ztrace[i].step = step /\ ztrace[i].ok
Execute(step) == ztrace' = Append(ztrace, [step |-> step, ok |-> step \notin zfails])

IdleZ ==
    /\ zPoolMode = "hierarchical"
    /\ zfails = {}
    /\ zpc = "returned"
    /\ zgroupErr = FALSE
    /\ ztrace = <<>>
    /\ zret = "none"

InitZ ==
    /\ zPoolMode \in PoolModes
    /\ zfails \in { F \in SUBSET ComposeSteps : Cardinality(F) <= 2 }
    /\ zpc = "start"
    /\ zgroupErr = FALSE
    /\ ztrace = <<>>
    /\ zret = "none"

\* Compose: in redirect mode loadRedirectMaps, whose error is returned.
LoadRedirectMaps ==
    /\ zpc = "start"
    /\ IF zPoolMode = "redirect"
       THEN /\ Execute(LoadStep)
            /\ IF LoadStep \in zfails
               THEN zpc' = "returned" /\ zret' = "err"
               ELSE zpc' = "feeds" /\ UNCHANGED zret
       ELSE zpc' = "feeds" /\ UNCHANGED <<ztrace, zret>>
    /\ UNCHANGED <<zPoolMode, zfails, zgroupErr>>
    /\ UNCHANGED notZ

\* A task of the feed group: processFeed.
ProcessFeed(feedName) ==
    /\ zpc = "feeds"
    /\ ~Executed(IngestStep(feedName))
    /\ Execute(IngestStep(feedName))
    /\ zgroupErr' = (zgroupErr \/ IngestStep(feedName) \in zfails)
    /\ UNCHANGED <<zPoolMode, zfails, zpc, zret>>
    /\ UNCHANGED notZ

\* group.Wait() of the feed group: with an error the group is cancelled, the
\* tasks that have not run are dropped, and Compose returns the error.
FeedGroupWait ==
    /\ zpc = "feeds"
    /\ zgroupErr \/ \A f \in ComposeFeeds : Executed(IngestStep(f))
    /\ IF zgroupErr
       THEN zpc' = "returned" /\ zret' = "err"
       ELSE zpc' = "build" /\ UNCHANGED zret
    /\ zgroupErr' = FALSE
    /\ UNCHANGED <<zPoolMode, zfails, ztrace>>
    /\ UNCHANGED notZ

\* buildRepository: ForEachKept hands the kept packages, in map order, to
\* repo.AddPackage and stops at the first error, which buildRepository
\* assigns to the blank identifier; generateRepository follows.
BuildRepository(p) ==
    /\ zpc = "build"
    /\ ~Executed(MaterializeStep(p))
    /\ Execute(MaterializeStep(p))
    /\ zpc' = IF \/ MaterializeStep(p) \in zfails
                 \/ \A q \in KeptPackages \ {p} : Executed(MaterializeStep(q))
              THEN "generate" ELSE "build"
    /\ UNCHANGED <<zPoolMode, zfails, zgroupErr, zret>>
    /\ UNCHANGED notZ

\* repository.GetDistributions(): the distributions of the packages added.
GetDistributions == { DistOf(p) : p \in { q \in KeptPackages : ExecutedOk(MaterializeStep(q)) } }

\* generateDistribution to the end of its component group: the indices are
\* written and the packages linked.
EmitDistribution(dist) ==
    /\ zpc = "generate"
    /\ dist \in GetDistributions
    /\ ~Executed(EmitStep(dist))
    /\ Execute(EmitStep(dist))
    /\ zgroupErr' = (zgroupErr \/ EmitStep(dist) \in zfails)
    /\ UNCHANGED <<zPoolMode, zfails, zpc, zret>>
    /\ UNCHANGED notZ

\* generateDistribution, generateRelease: Release is written, ClearSign and
\* DetachedSign make InRelease and Release.gpg.
SignDistribution(dist) ==
    /\ zpc = "generate"
    /\ ExecutedOk(EmitStep(dist))
    /\ ~Executed(SignStep(dist))
    /\ Execute(SignStep(dist))
    /\ zgroupErr' = (zgroupErr \/ SignStep(dist) \in zfails)
    /\ UNCHANGED <<zPoolMode, zfails, zpc, zret>>
    /\ UNCHANGED notZ

\* group.Wait() of the distribution group and the return of Compose.
GenerateRepositoryWait ==
    /\ zpc = "generate"
    /\ \/ zgroupErr
       \/ \A dist \in GetDistributions : Executed(SignStep(dist))
    /\ \A dist \in GetDistributions :
          (ExecutedOk(EmitStep(dist)) /\ ~Executed(SignStep(dist))) => zgroupErr
    /\ zret' = IF zgroupErr THEN "err" ELSE "nil"
    /\ zpc' = "returned"
    /\ zgroupErr' = FALSE
    /\ UNCHANGED <<zPoolMode, zfails, ztrace>>
    /\ UNCHANGED notZ

NextZ ==
    \/ LoadRedirectMaps
    \/ \E f \in ComposeFeeds : ProcessFeed(f)
    \/ FeedGroupWait
    \/ \E p \in KeptPackages : BuildRepository(p)
    \/ \E dist \in {"d1", "d2"} : EmitDistribution(dist)
    \/ \E dist \in {"d1", "d2"} : SignDistribution(dist)
    \/ GenerateRepositoryWait

\* The place of a step in the sequence of Compose.
StageRank(step) ==
    CASE step[1] = "load-maps" -> 1
      [] step[1] = "ingest" -> 2
      [] step[1] = "materialize" -> 3
      [] step[1] = "emit" -> 4
      [] step[1] = "sign" -> 5

\* Step t comes after step s in the sequence: it belongs to a later stage;
\* the distributions are generated side by side, so that between them only
\* the steps of one distribution are in sequence.
LaterStep(s, t) ==
    /\ StageRank(s) < StageRank(t)
    /\ StageRank(s) >= 4 => s[2] = t[2]

\* C18: a failure in any step of Compose (the addition of a kept package to
\* the repository included) makes Compose return an error, and no step that
\* comes later in the sequence is executed after it.
C18_FailureAborts ==
    /\ zret # "none" =>
          (zret = "err" <=> \E i \in 1..Len(ztrace) : ~ztrace[i].ok)
    /\ \A i, j \in 1..Len(ztrace) :
          (i < j /\ ~ztrace[i].ok) => ~LaterStep(ztrace[i].step, ztrace[j].step)

(***************************************************************************)
(* Application.Generate: the timestamped staging directory, the deferred   *)
(* removal on error, swapPublicSymlink and cleanupOldStaging.  Staging      *)
(* directories are named by their timestamp; runs follow each other, each   *)
(* later than the last; every step that touches the file system, the        *)
(* composers or the signer can fail.                                        *)
(***************************************************************************)
MaxRuns == 3
Timestamps == 1..MaxRuns
NoTarget == 0
KeepLastValues == {0, 1, 2}

\* The deferred function of Generate: os.RemoveAll(stagingPath) if err # nil.
KeepStaging(staging, stagingPath, failed) == staging

RemoveStagingOnError(staging, stagingPath, failed) ==
    IF failed THEN staging \ {stagingPath} ELSE staging

\* cleanupOldStaging: the directories sorted by name, newest first, and
\* those after the first keepLast removed; nothing is removed for keepLast <= 0.
OldStaging(staging, keepLast) ==
    IF keepLast <= 0 THEN {}
    ELSE { dir \in staging : Cardinality({ newer \in staging : newer > dir }) >= keepLast }

IdleG ==
    /\ gKeepLast = 0
    /\ gstaging = {}
    /\ gpublic = NoTarget
    /\ gtmpSymlink = NoTarget
    /\ gtimestamp = 0
    /\ gpc = "returned"
    /\ gerr = FALSE
    /\ gret = "none"

InitG ==
    /\ gKeepLast \in KeepLastValues
    /\ gstaging = {}
    /\ gpublic = NoTarget
    /\ gtmpSymlink = NoTarget
    /\ gtimestamp = 0
    /\ gpc = "returned"
    /\ gerr = FALSE
    /\ gret = "none"

\* Generate is called: the timestamp is taken and MkdirAll makes the staging
\* directory; if that fails Generate returns the error at once.
GenerateStart ==
    /\ gpc = "returned"
    /\ gtimestamp < MaxRuns
    /\ gtimestamp' = gtimestamp + 1
    /\ \E ok \in BOOLEAN :
          IF ok
          THEN /\ gstaging' = gstaging \cup {gtimestamp + 1}
               /\ gpc' = "repositories"
               /\ gret' = "none"
          ELSE /\ gpc' = "returned"
               /\ gret' = "err"
               /\ UNCHANGED gstaging
    /\ gerr' = FALSE
    /\ UNCHANGED <<gKeepLast, gpublic, gtmpSymlink>>
    /\ UNCHANGED notG

\* The repository group: generateRepository for every repository, and group.Wait().
GenerateRepositories ==
    /\ gpc = "repositories"
    /\ \E ok \in BOOLEAN :
          /\ gerr' = ~ok
          /\ gpc' = IF ok THEN "index" ELSE "defer"
    /\ UNCHANGED <<gKeepLast, gstaging, gpublic, gtmpSymlink, gtimestamp, gret>>
    /\ UNCHANGED notG

\* The composers' Index: copySigningKeys, webIndex.
ComposerIndex ==
    /\ gpc = "index"
    /\ \E ok \in BOOLEAN :
          /\ gerr' = ~ok
          /\ gpc' = IF ok THEN "404" ELSE "defer"
    /\ UNCHANGED <<gKeepLast, gstaging, gpublic, gtmpSymlink, gtimestamp, gret>>
    /\ UNCHANGED notG

\* compose.Generate404HTML
Generate404HTML ==
    /\ gpc = "404"
    /\ \E ok \in BOOLEAN :
          /\ gerr' = ~ok
          /\ gpc' = IF ok THEN "symlink" ELSE "defer"
    /\ UNCHANGED <<gKeepLast, gstaging, gpublic, gtmpSymlink, gtimestamp, gret>>
    /\ UNCHANGED notG

\* swapPublicSymlink: os.Symlink makes <staging>.symlink.
SwapCreateSymlink ==
    /\ gpc = "symlink"
    /\ \E ok \in BOOLEAN :
          IF ok
          THEN gtmpSymlink' = gtimestamp /\ gpc' = "rename" /\ gerr' = FALSE
          ELSE gpc' = "defer" /\ gerr' = TRUE /\ UNCHANGED gtmpSymlink
    /\ UNCHANGED <<gKeepLast, gstaging, gpublic, gtimestamp, gret>>
    /\ UNCHANGED notG

\* swapPublicSymlink: os.Rename puts the temporary symlink in the place of
\* the public path; if it fails the temporary symlink is removed.
SwapRename ==
    /\ gpc = "rename"
    /\ \E ok \in BOOLEAN :
          IF ok
          THEN gpublic' = gtmpSymlink /\ gpc' = "cleanup" /\ gerr' = FALSE
          ELSE gpc' = "defer" /\ gerr' = TRUE /\ UNCHANGED gpublic
    /\ gtmpSymlink' = NoTarget
    /\ UNCHANGED <<gKeepLast, gstaging, gtimestamp, gret>>
    /\ UNCHANGED notG

\* cleanupOldStaging: ReadDir can fail (not when the cleanup is disabled);
\* otherwise the directories beyond keep_last are removed.
CleanupOldStaging ==
    /\ gpc = "cleanup"
    /\ \E ok \in BOOLEAN :
          IF ok \/ gKeepLast <= 0
          THEN /\ gstaging' = gstaging \ OldStaging(gstaging, gKeepLast)
               /\ gerr' = FALSE
          ELSE /\ gerr' = TRUE
               /\ UNCHANGED gstaging
    /\ gpc' = "defer"
    /\ UNCHANGED <<gKeepLast, gpublic, gtmpSymlink, gtimestamp, gret>>
    /\ UNCHANGED notG

\* The return of Generate with its deferred function.
GenerateReturn ==
    /\ gpc = "defer"
    /\ gstaging' = RemoveStagingOnError(gstaging, gtimestamp, gerr)
    /\ gret' = IF gerr THEN "err" ELSE "nil"
    /\ gpc' = "returned"
    /\ UNCHANGED <<gKeepLast, gpublic, gtmpSymlink, gtimestamp, gerr>>
    /\ UNCHANGED notG

NextG ==
    \/ GenerateStart
    \/ GenerateRepositories
    \/ ComposerIndex
    \/ Generate404HTML
    \/ SwapCreateSymlink
    \/ SwapRename
    \/ CleanupOldStaging
    \/ GenerateReturn

C29_PublicTargetKept == gpublic # NoTarget => gpublic \in gstaging

(***************************************************************************)
(* The main worker pool under Application.Fetch.  Fetch submits one task   *)
(* per feed to a group of the main pool; a feed task (Apt.Run) makes a      *)
(* subpool of the main pool, submits a task per distribution and waits for  *)
(* the group inside its worker; processDist does the same for its indices   *)
(* (none here: the Release lists no index).  Subpool tasks run on the        *)
(* workers of the main pool.  The feeds have one distribution each and are  *)
(* counted, not told apart.                                                 *)
(***************************************************************************)
\* Config.defaults: Workers.Main is raised to 80.
MainWorkers == 80
\* The number of expanded feeds of the repositories fetched.
FeedCounts == {8, 80}

\* The workers in use: a waiting feed task holds one, a running distribution
\* task holds one while its feed task holds another.
BusyWorkers == pwaiting + 2 * prunning

IdleP ==
    /\ pfeeds = 0
    /\ pqueued = 0
    /\ pwaiting = 0
    /\ prunning = 0
    /\ pdone = 0

\* Fetch has submitted its feed tasks and is in group.Wait().
InitP ==
    /\ pfeeds \in FeedCounts
    /\ pqueued = pfeeds
    /\ pwaiting = 0
    /\ prunning = 0
    /\ pdone = 0

\* A worker takes a feed task: NewApt, Run, the subpool, the distribution
\* task submitted, group.Wait().
StartFeed ==
    /\ pqueued > 0
    /\ BusyWorkers < MainWorkers
    /\ pqueued' = pqueued - 1
    /\ pwaiting' = pwaiting + 1
    /\ UNCHANGED <<pfeeds, prunning, pdone>>
    /\ UNCHANGED notP

\* A worker takes the distribution task of a waiting feed task: processDist.
StartDist ==
    /\ pwaiting > 0
    /\ BusyWorkers < MainWorkers
    /\ pwaiting' = pwaiting - 1
    /\ prunning' = prunning + 1
    /\ UNCHANGED <<pfeeds, pqueued, pdone>>
    /\ UNCHANGED notP

\* processDist returns, the Wait of its feed task returns and Run returns:
\* both workers are free again.
FinishDist ==
    /\ prunning > 0
    /\ prunning' = prunning - 1
    /\ pdone' = pdone + 1
    /\ UNCHANGED <<pfeeds, pqueued, pwaiting>>
    /\ UNCHANGED notP

NextP ==
    \/ StartFeed
    \/ StartDist
    \/ FinishDist

\* No task can be taken up or finish although feeds are left.
Deadlocked ==
    /\ pdone < pfeeds
    /\ prunning = 0
    /\ BusyWorkers >= MainWorkers

\* C20: with 80 workers in the main pool the nested waiting never deadlocks,
\* whatever the number of feeds: as long as feeds are left, a task can start
\* or finish.
C20_NeverDeadlocks == ~Deadlocked

(***************************************************************************)
(* Download coordinator under the context of the application: the ctx that *)
(* Download hands to the pool group and download hands to grab, and its     *)
(* cancellation.  The steps of downloadWithDedup are those of the download  *)
(* coordinator above; a transfer that is run or still running when the      *)
(* context is cancelled ends with grab's error, and a task the pool has not *)
(* started when the context is cancelled is either dropped by the group or  *)
(* run into that error.                                                     *)
(***************************************************************************)
Cancelled == [kind |-> "cancelled", by |-> NoOwner]
NothingAtCancel == [pending |-> {}, completed |-> {}]

\* A transfer that goes on to success whatever the context.
IgnoresContext(ctx, outcome) == TRUE

\* grabReq.WithContext(ctx): a transfer under a cancelled context fails.
HonorsContext(ctx, outcome) == ctx = "cancelled" => outcome.kind = "dlerr"

IdleX ==
    /\ dlctx = "live"
    /\ dlatCancel = NothingAtCancel

InitX ==
    /\ dlctx = "live"
    /\ dlatCancel = NothingAtCancel

\* The callers whose transfer has ended with a result.
TransferComplete == { c \in Callers : dlpc[c] \in {"notify", "cleanup", "done"} /\ dlret[c] = Ok(c) }

\* cancel(): the context of the application is cancelled.  What had not
\* returned and which transfers were complete at that moment is kept.
CancelContext ==
    /\ dlctx = "live"
    /\ dlctx' = "cancelled"
    /\ dlatCancel' = [pending |-> { c \in Callers : dlpc[c] # "done" },
                      completed |-> TransferComplete]
    /\ UNCHANGED notX

\* group.SubmitErr and the start of the task: under a cancelled context the
\* group may drop the task, which then comes back with the context's error.
SubmitCtx(c, req) ==
    \/ Submit(c, req)
    \/ /\ dlctx = "cancelled"
       /\ dlpc[c] = "idle"
       /\ dlreq' = [dlreq EXCEPT ![c] = req]
       /\ dlret' = [dlret EXCEPT ![c] = Cancelled]
       /\ dlpc' = [dlpc EXCEPT ![c] = "done"]
       /\ UNCHANGED <<inflight, waiters, joined, transfers>>
       /\ UNCHANGED notDL

\* m.download(ctx, req) with the context applied to the grab request.
DownloadCtx(c) ==
    /\ Download(c)
    /\ HonorsContext(dlctx, dlret'[c])

\* The steps of a request that has been started.
RequestStep ==
    \/ \E c \in Callers : CheckCollision(c)
    \/ \E c \in Callers : WaitDone(c)
    \/ \E c \in Callers : MkdirAll(c)
    \/ \E c \in Callers : FailDelete(c)
    \/ \E c \in Callers : DownloadCtx(c)
    \/ \E c \in Callers : Notify(c)
    \/ \E c \in Callers : Cleanup(c)

NextX ==
    \/ CancelContext
    \/ \E c \in Callers, req \in DownloadRequests : SubmitCtx(c, req)
    \/ RequestStep

IsError(r) == r.kind \in {"dlerr", "mkdirerr", "checksum conflict", "URL conflict", "cancelled"}
Started(c) == dlpc[c] \notin {"idle", "done"}

ReleasePages == <<{"r1", "r2"}, {"r3", "r4"}>>
Releases == {"r1", "r2", "r3", "r4"}
ChangesFiles == {"c1", "c2", "c3", "c4"}
ChangesAsset == [r \in Releases |->
    CASE r = "r1" -> "c1" [] r = "r2" -> "c2" [] r = "r3" -> "c3" [] OTHER -> "c4"]
ChangesVersion == [c \in ChangesFiles |->
    CASE c = "c1" -> 1 [] c = "c2" -> 2 [] c = "c3" -> 3 [] OTHER -> 4]

\* matchesReleaseType and the tag patterns: r4 is of a type that is not taken.
matchesReleaseType(r) == r # "r4"

\* shouldIncludeDistribution, FromSources and Packages: c2 is filtered out.
PassesFilters(c) == c # "c2"

\* changes.Files of every .changes file: a .dsc and a .deb; the .dsc names
\* one more file.
ReferencedNames == <<"dsc", "deb">>
FileSlots == 1..Len(ReferencedNames)
DscNested == "orig"
ReferencedFile(k, i) == <<k, ReferencedNames[i]>>
NestedFile(k) == <<k, DscNested>>

\* What a finished task assigns to its slot of fileResults.
TaskResult(k, i) ==
    IF ReferencedNames[i] = "dsc" THEN {ReferencedFile(k, i), NestedFile(k)}
    ELSE {ReferencedFile(k, i)}

\* Every file LinkFilesToTrusted is to get for the .changes file k.
TrustedFilesOf(k) == UNION { TaskResult(k, i) : i \in FileSlots }

\* changesCollector.Kept() with a retention that keeps the newest version.
Retained(added) == { c \in added : \A d \in added : ChangesVersion[d] <= ChangesVersion[c] }

\* The .changes files of all accepted releases of all pages that pass the
\* filters.
ListedAndFiltered ==
    { ChangesAsset[r] : r \in { q \in Releases : matchesReleaseType(q) /\ PassesFilters(ChangesAsset[q]) } }

\* A Wait() that returns while tasks of the group are still running.
SomeFinished(states) == TRUE

\* group.Wait() returning nil: every task of the group has finished.
AllFinished(states) == \A s \in states : s \notin {"queued", "nested", "ready", "store"}

\* Capacity of the backing array of a slice grown by append one at a time.
SliceCap(n) == IF n <= 2 THEN n ELSE IF n <= 4 THEN 4 ELSE 8

IdleH ==
    /\ ghpc = "listing"
    /\ ghpage = 1
    /\ releaseTasks = [c \in ChangesFiles |-> "none"]
    /\ keptChanges = {}
    /\ ghwalk = [k \in ChangesFiles |-> "none"]
    /\ fileTasks = [k \in ChangesFiles |-> [i \in FileSlots |-> "none"]]
    /\ ghseen = [k \in ChangesFiles |-> [i \in FileSlots |-> 0]]
    /\ fileResults = [k \in ChangesFiles |-> <<>>]
    /\ downloadedFiles = [k \in ChangesFiles |-> {}]
    /\ ghdownloaded = {}
    /\ ghpromoted = {}
    /\ gherr = FALSE

InitH == IdleH

\* One round of the listing loop: ListReleases for the next page, one task
\* per .changes asset of each accepted release, and the end of the loop
\* after the last page.  A listing error returns from Run.
ListReleases ==
    /\ ghpc = "listing"
    /\ \/ /\ gherr' = TRUE
          /\ ghpc' = "done"
          /\ UNCHANGED <<ghpage, releaseTasks>>
       \/ /\ releaseTasks' = [c \in ChangesFiles |->
                IF \E r \in ReleasePages[ghpage] : matchesReleaseType(r) /\ ChangesAsset[r] = c
                THEN "queued" ELSE releaseTasks[c]]
          /\ ghpage' = ghpage + 1
          /\ ghpc' = IF ghpage = Len(ReleasePages) THEN "waitReleases" ELSE "listing"
          /\ UNCHANGED gherr
    /\ UNCHANGED <<keptChanges, ghwalk, fileTasks, ghseen, fileResults, downloadedFiles, ghdownloaded, ghpromoted>>
    /\ UNCHANGED notH

\* processChangesFile: download and parse the .changes file (either may
\* fail), apply the filters, add it to the collector.
processChangesFile(c) ==
    /\ releaseTasks[c] = "queued"
    /\ \/ releaseTasks' = [releaseTasks EXCEPT ![c] = "failed"]
       \/ releaseTasks' = [releaseTasks EXCEPT ![c] = IF PassesFilters(c) THEN "added" ELSE "skipped"]
    /\ UNCHANGED <<ghpc, ghpage, keptChanges, ghwalk, fileTasks, ghseen, fileResults, downloadedFiles, ghdownloaded, ghpromoted, gherr>>
    /\ UNCHANGED notH

\* group.Wait() of the release tasks, then changesCollector.Kept() and one
\* processKeptChangesFile task per kept .changes file.
ReleaseGroupWait ==
    /\ ghpc = "waitReleases"
    /\ \/ /\ \E c \in ChangesFiles : releaseTasks[c] = "failed"
          /\ gherr' = TRUE
          /\ ghpc' = "done"
          /\ UNCHANGED <<keptChanges, ghwalk>>
       \/ /\ \A c \in ChangesFiles : releaseTasks[c] # "failed"
          /\ AllFinished({ releaseTasks[c] : c \in ChangesFiles })
          /\ keptChanges' = Retained({ c \in ChangesFiles : releaseTasks[c] = "added" })
          /\ ghwalk' = [k \in ChangesFiles |-> IF k \in keptChanges' THEN "submitting" ELSE "none"]
          /\ ghpc' = "walking"
          /\ UNCHANGED gherr
    /\ UNCHANGED <<ghpage, releaseTasks, fileTasks, ghseen, fileResults, downloadedFiles, ghdownloaded, ghpromoted>>
    /\ UNCHANGED notH

\* One round of the loop over changes.Files in processKeptChangesFile:
\* fileResults = append(fileResults, nil) and the task of that slot.
SubmitFile(k) ==
    /\ ghwalk[k] = "submitting"
    /\ LET idx == Len(fileResults[k]) + 1 IN
        /\ fileResults' = [fileResults EXCEPT ![k] = Append(@, {})]
        /\ fileTasks' = [fileTasks EXCEPT ![k][idx] = "queued"]
        /\ ghwalk' = [ghwalk EXCEPT ![k] = IF idx = Len(ReferencedNames) THEN "waiting" ELSE "submitting"]
    /\ UNCHANGED <<ghpc, ghpage, releaseTasks, keptChanges, ghseen, downloadedFiles, ghdownloaded, ghpromoted, gherr>>
    /\ UNCHANGED notH

\* The download and verification of a referenced file by its task
\* (downloadReferencedFileWithAsset, or the first half of processDscFile).
FetchReferenced(k, i) ==
    /\ fileTasks[k][i] = "queued"
    /\ \/ /\ fileTasks' = [fileTasks EXCEPT ![k][i] = "failed"]
          /\ UNCHANGED ghdownloaded
       \/ /\ fileTasks' = [fileTasks EXCEPT ![k][i] = IF ReferencedNames[i] = "dsc" THEN "nested" ELSE "ready"]
          /\ ghdownloaded' = ghdownloaded \cup {ReferencedFile(k, i)}
    /\ UNCHANGED <<ghpc, ghpage, releaseTasks, keptChanges, ghwalk, ghseen, fileResults, downloadedFiles, ghpromoted, gherr>>
    /\ UNCHANGED notH

\* processDscFile, second half: the files the .dsc names are downloaded and
\* the group of these downloads is waited for.
processDscFile(k, i) ==
    /\ fileTasks[k][i] = "nested"
    /\ \/ /\ fileTasks' = [fileTasks EXCEPT ![k][i] = "failed"]
          /\ UNCHANGED ghdownloaded
       \/ /\ fileTasks' = [fileTasks EXCEPT ![k][i] = "ready"]
          /\ ghdownloaded' = ghdownloaded \cup {NestedFile(k)}
    /\ UNCHANGED <<ghpc, ghpage, releaseTasks, keptChanges, ghwalk, ghseen, fileResults, downloadedFiles, ghpromoted, gherr>>
    /\ UNCHANGED notH

\* fileResults[idx] = ... in the task, first half: the slice variable is
\* read, without synchronisation with the appends of the loop.
ReadHeader(k, i) ==
    /\ fileTasks[k][i] = "ready"
    /\ ghseen' = [ghseen EXCEPT ![k][i] = SliceCap(Len(fileResults[k]))]
    /\ fileTasks' = [fileTasks EXCEPT ![k][i] = "store"]
    /\ UNCHANGED <<ghpc, ghpage, releaseTasks, keptChanges, ghwalk, fileResults, downloadedFiles, ghdownloaded, ghpromoted, gherr>>
    /\ UNCHANGED notH

\* fileResults[idx] = ... in the task, second half: the element is stored in
\* the backing array that was read.  An append that has grown the slice in
\* between has copied the old elements to a new array: the store goes to
\* the old one and the slot of the slice stays nil.
StoreResult(k, i) ==
    /\ fileTasks[k][i] = "store"
    /\ fileResults' = [fileResults EXCEPT ![k][i] =
            IF ghseen[k][i] = SliceCap(Len(fileResults[k])) THEN TaskResult(k, i) ELSE @]
    /\ fileTasks' = [fileTasks EXCEPT ![k][i] = "stored"]
    /\ UNCHANGED <<ghpc, ghpage, releaseTasks, keptChanges, ghwalk, ghseen, downloadedFiles, ghdownloaded, ghpromoted, gherr>>
    /\ UNCHANGED notH

\* processKeptChangesFile after the loop: group.Wait(), and on success the
\* results are collected and handed to LinkFilesToTrusted.
processKeptChangesFile(k) ==
    /\ ghwalk[k] = "waiting"
    /\ \/ /\ \E i \in FileSlots : fileTasks[k][i] = "failed"
          /\ ghwalk' = [ghwalk EXCEPT ![k] = "failed"]
          /\ UNCHANGED <<downloadedFiles, ghpromoted>>
       \/ /\ \A i \in FileSlots : fileTasks[k][i] = "stored"
          /\ downloadedFiles' = [downloadedFiles EXCEPT ![k] = UNION { fileResults[k][i] : i \in FileSlots }]
          /\ ghpromoted' = ghpromoted \cup downloadedFiles'[k]
          /\ ghwalk' = [ghwalk EXCEPT ![k] = "linked"]
    /\ UNCHANGED <<ghpc, ghpage, releaseTasks, keptChanges, fileTasks, ghseen, fileResults, ghdownloaded, gherr>>
    /\ UNCHANGED notH

\* return group.Wait() at the end of Run.
RunReturn ==
    /\ ghpc = "walking"
    /\ \A k \in keptChanges : ghwalk[k] \in {"linked", "failed"}
    /\ gherr' = \E k \in keptChanges : ghwalk[k] = "failed"
    /\ ghpc' = "done"
    /\ UNCHANGED <<ghpage, releaseTasks, keptChanges, ghwalk, fileTasks, ghseen, fileResults, downloadedFiles, ghdownloaded, ghpromoted>>
    /\ UNCHANGED notH

NextH ==
    \/ ListReleases
    \/ \E c \in ChangesFiles : processChangesFile(c)
    \/ ReleaseGroupWait
    \/ \E k \in ChangesFiles : SubmitFile(k)
    \/ \E k \in ChangesFiles, i \in FileSlots : FetchReferenced(k, i)
    \/ \E k \in ChangesFiles, i \in FileSlots : processDscFile(k, i)
    \/ \E k \in ChangesFiles, i \in FileSlots : ReadHeader(k, i)
    \/ \E k \in ChangesFiles, i \in FileSlots : StoreResult(k, i)
    \/ \E k \in ChangesFiles : processKeptChangesFile(k)
    \/ RunReturn

ListingComplete == ghpage > Len(ReleasePages)
Walked(k) == ghwalk[k] # "none"
FilesOf(k) == { f \in ghdownloaded \cup ghpromoted : f[1] = k }

\* C22: no file referenced by a .changes file is downloaded or promoted
\* before the listing of all releases has completed, and only .changes files
\* of the retained set computed over all listed and filtered .changes files
\* are walked.
C22_WalkOnlyRetainedAfterListing ==
    /\ (ghdownloaded # {} \/ ghpromoted # {}) => ListingComplete
    /\ \A k \in ChangesFiles : Walked(k) => k \in Retained(ListedAndFiltered)
    /\ \A k \in ChangesFiles : FilesOf(k) # {} => Walked(k)

\* The newest listed and filtered .changes file, found on the last page, has
\* been walked and files of it are promoted, while an older one that was
\* added to the collector has not been touched.
C22_Witness ==
    /\ ghwalk["c3"] = "linked"
    /\ ghpromoted # {}
    /\ releaseTasks["c1"] = "added"
    /\ FilesOf("c1") = {}

\* C23: all trusted files of one retained .changes file are promoted
\* together as one batch, only after every referenced file, the files named
\* by a .dsc included, has been downloaded and verified; when a download or
\* verification for that .changes file fails none of its files is promoted.
C23_BatchCompleteOrNothing ==
    \A k \in ChangesFiles :
        /\ ghwalk[k] = "linked" =>
            /\ downloadedFiles[k] = TrustedFilesOf(k)
            /\ TrustedFilesOf(k) \subseteq ghdownloaded
        /\ ghwalk[k] # "linked" => { f \in ghpromoted : f[1] = k } = {}

\* The part of C23 that holds: what is promoted has been downloaded and
\* verified before, in one call made after the whole group has returned,
\* and nothing is promoted when a download or verification has failed.
C23_PromotedAfterDownloads ==
    \A k \in ChangesFiles :
        /\ { f \in ghpromoted : f[1] = k } = downloadedFiles[k]
        /\ downloadedFiles[k] \subseteq ghdownloaded
        /\ downloadedFiles[k] # {} => \A i \in FileSlots : fileTasks[k][i] = "stored"
        /\ (\E i \in FileSlots : fileTasks[k][i] = "failed") => { f \in ghpromoted : f[1] = k } = {}

(***************************************************************************)
(* Apt.generateRepository and generateDistribution: one task per           *)
(* distribution, in it one task per component, and in a component task the  *)
(* architectures one after another, generatePackageIndex then               *)
(* linkPackagesToPool for each.  Both work on the PackageList of the        *)
(* (distribution, component) that repo.GetPackageList returns.              *)
(***************************************************************************)
GenDistributions == {"bookworm", "trixie"}
GenComponents == {"main", "debug"}
PackageLists == GenDistributions \X GenComponents

\* repo.GetArchitectures(dist, comp, source), sorted, and the two calls made
\* for each architecture, in the order of the loop.
GenArchitectures == <<"amd64", "arm64">>
ArchOperations ==
    << <<"amd64", "generatePackageIndex">>, <<"amd64", "linkPackagesToPool">>,
       <<"arm64", "generatePackageIndex">>, <<"arm64", "linkPackagesToPool">> >>
OperationSet == { ArchOperations[i] : i \in 1..Len(ArchOperations) }

\* One goroutine per architecture: an operation may start as soon as the
\* index of its own architecture is written.
PerArchitecture(active, finished, op) ==
    /\ op \notin active \cup finished
    /\ op[2] = "linkPackagesToPool" => <<op[1], "generatePackageIndex">> \in finished

\* The loop of the component task: the next call starts when the one before
\* it has returned.
Sequential(active, finished, op) ==
    /\ active = {}
    /\ Cardinality(finished) < Len(ArchOperations)
    /\ op = ArchOperations[Cardinality(finished) + 1]

IdleN ==
    /\ distTask = [d \in GenDistributions |-> "queued"]
    /\ compTask = [l \in PackageLists |-> "none"]
    /\ operating = [l \in PackageLists |-> {}]
    /\ finishedOps = [l \in PackageLists |-> {}]

InitN == IdleN

\* generateDistribution up to group.Wait(): the component tasks are
\* submitted to the group of the subpool.
generateDistribution(d) ==
    /\ distTask[d] = "queued"
    /\ distTask' = [distTask EXCEPT ![d] = "waiting"]
    /\ compTask' = [l \in PackageLists |-> IF l[1] = d THEN "running" ELSE compTask[l]]
    /\ UNCHANGED <<operating, finishedOps>>
    /\ UNCHANGED notN

\* A component task enters generatePackageIndex or linkPackagesToPool.
StartOperation(l, op) ==
    /\ compTask[l] = "running"
    /\ Sequential(operating[l], finishedOps[l], op)
    /\ operating' = [operating EXCEPT ![l] = @ \cup {op}]
    /\ UNCHANGED <<distTask, compTask, finishedOps>>
    /\ UNCHANGED notN

\* The call returns; an error ends the component task, and so does the end of
\* the loop.
FinishOperation(l, op) ==
    /\ op \in operating[l]
    /\ operating' = [operating EXCEPT ![l] = @ \ {op}]
    /\ \/ /\ finishedOps' = [finishedOps EXCEPT ![l] = @ \cup {op}]
          /\ compTask' = [compTask EXCEPT ![l] =
                IF finishedOps'[l] = OperationSet /\ operating'[l] = {} THEN "done" ELSE @]
       \/ /\ compTask' = [compTask EXCEPT ![l] = "failed"]
          /\ UNCHANGED finishedOps
    /\ UNCHANGED distTask
    /\ UNCHANGED notN

\* group.Wait() in generateDistribution, then generateRelease.
generateRelease(d) ==
    /\ distTask[d] = "waiting"
    /\ \/ /\ \E c \in GenComponents : compTask[<<d, c>>] = "failed"
          /\ distTask' = [distTask EXCEPT ![d] = "failed"]
       \/ /\ \A c \in GenComponents : compTask[<<d, c>>] = "done"
          /\ distTask' = [distTask EXCEPT ![d] = "done"]
    /\ UNCHANGED <<compTask, operating, finishedOps>>
    /\ UNCHANGED notN

NextN ==
    \/ \E d \in GenDistributions : generateDistribution(d)
    \/ \E l \in PackageLists, op \in OperationSet : StartOperation(l, op)
    \/ \E l \in PackageLists, op \in OperationSet : FinishOperation(l, op)
    \/ \E d \in GenDistributions : generateRelease(d)

OperationIndex(op) == CHOOSE i \in 1..Len(ArchOperations) : ArchOperations[i] = op

\* C27: the index generation and pool linking of the architectures of one
\* (distribution, component) run one after another, in the order of the
\* loop: at no time are two of them at work on the same PackageList, and
\* one starts only when all before it have returned.
C27_OnePackageListOneTask ==
    \A l \in PackageLists :
        /\ Cardinality(operating[l]) <= 1
        /\ \A op \in operating[l] \cup finishedOps[l] :
               \A i \in 1..(OperationIndex(op) - 1) : ArchOperations[i] \in finishedOps[l]

\* Both components of one distribution and a component of the other one are
\* at work at the same time, each on its second architecture.
C27_Witness ==
    /\ operating[<<"bookworm", "main">>] = {<<"arm64", "generatePackageIndex">>}
    /\ operating[<<"bookworm", "debug">>] # {}
    /\ operating[<<"trixie", "main">>] # {}

(***************************************************************************)
(* The download pool under DownloadAndDecompress: the outer task of a       *)
(* request runs on a worker of the download pool, calls m.Download, which   *)
(* submits the transfer to a group of the same pool, and waits inside its   *)
(* worker for that group and then for the decompression pool.  The          *)
(* requests are counted, not told apart; each is for another destination.   *)
(***************************************************************************)
\* Config.defaults: Workers.Download is 20 when not configured.
DownloadWorkers == 20
\* The number of index files fetched at the same time by processIndex tasks.
RequestCounts == {10, 20}

\* The workers in use: one per outer task that waits for its transfer or
\* for its decompression, one per running transfer.
BusyDownloadWorkers == wwaiting + wrunning + wdecompress

IdleW ==
    /\ wrequests = 0
    /\ wqueued = 0
    /\ wwaiting = 0
    /\ winner = 0
    /\ wrunning = 0
    /\ wfetched = 0
    /\ wdecompress = 0
    /\ wdone = 0

\* The callers have submitted their outer tasks and are in group.Wait().
InitW ==
    /\ wrequests \in RequestCounts
    /\ wqueued = wrequests
    /\ wwaiting = 0
    /\ winner = 0
    /\ wrunning = 0
    /\ wfetched = 0
    /\ wdecompress = 0
    /\ wdone = 0

\* A worker takes an outer task: the format is detected, m.Download submits
\* the transfer to the pool, downloadGroup.Wait().
StartOuter ==
    /\ wqueued > 0
    /\ BusyDownloadWorkers < DownloadWorkers
    /\ wqueued' = wqueued - 1
    /\ wwaiting' = wwaiting + 1
    /\ winner' = winner + 1
    /\ UNCHANGED <<wrequests, wrunning, wfetched, wdecompress, wdone>>
    /\ UNCHANGED notW

\* A worker takes a transfer: downloadWithDedup.
StartInner ==
    /\ winner > 0
    /\ BusyDownloadWorkers < DownloadWorkers
    /\ winner' = winner - 1
    /\ wrunning' = wrunning + 1
    /\ UNCHANGED <<wrequests, wqueued, wwaiting, wfetched, wdecompress, wdone>>
    /\ UNCHANGED notW

\* The transfer returns and frees its worker.
FinishInner ==
    /\ wrunning > 0
    /\ wrunning' = wrunning - 1
    /\ wfetched' = wfetched + 1
    /\ UNCHANGED <<wrequests, wqueued, wwaiting, winner, wdecompress, wdone>>
    /\ UNCHANGED notW

\* downloadGroup.Wait() returns in the outer task, which hands the file to
\* the decompression pool and waits for it, still on its worker.
Decompress ==
    /\ wfetched > 0
    /\ wfetched' = wfetched - 1
    /\ wwaiting' = wwaiting - 1
    /\ wdecompress' = wdecompress + 1
    /\ UNCHANGED <<wrequests, wqueued, winner, wrunning, wdone>>
    /\ UNCHANGED notW

\* decompGroup.Wait() returns and the outer task returns its result.
FinishOuter ==
    /\ wdecompress > 0
    /\ wdecompress' = wdecompress - 1
    /\ wdone' = wdone + 1
    /\ UNCHANGED <<wrequests, wqueued, wwaiting, winner, wrunning, wfetched>>
    /\ UNCHANGED notW

NextW ==
    \/ StartOuter
    \/ StartInner
    \/ FinishInner
    \/ Decompress
    \/ FinishOuter

\* Every worker is held by an outer task that waits for a transfer no
\* worker is left to run.
AllWaitOnInner ==
    /\ wwaiting >= DownloadWorkers
    /\ winner = wwaiting
    /\ wrunning = 0 /\ wfetched = 0 /\ wdecompress = 0

\* C28: however many download-then-decompress requests are outstanding, the
\* outer tasks never hold all workers of the download pool while their
\* transfers wait for a worker: as long as requests are left, a task can
\* start or finish.
C28_NeverAllWaitOnInner == ~AllWaitOnInner

(***************************************************************************)
(* Specifications                                                          *)
(***************************************************************************)

InitSpecDL == InitDL /\ IdleHL /\ IdleLT /\ IdleV /\ IdleR /\ IdleC /\ IdleF /\ IdleE /\ IdleK /\ IdleZ /\ IdleG /\ IdleP /\ IdleX /\ IdleH /\ IdleN /\ IdleW
SpecDL == InitSpecDL /\ [][NextDL]_vars

InitSpecHardlink == IdleDL /\ InitHL /\ IdleLT /\ IdleV /\ IdleR /\ IdleC /\ IdleF /\ IdleE /\ IdleK /\ IdleZ /\ IdleG /\ IdleP /\ IdleX /\ IdleH /\ IdleN /\ IdleW
SpecHardlink == InitSpecHardlink /\ [][NextHL]_vars

InitSpecTrust == IdleDL /\ IdleHL /\ InitLT /\ IdleV /\ IdleR /\ IdleC /\ IdleF /\ IdleE /\ IdleK /\ IdleZ /\ IdleG /\ IdleP /\ IdleX /\ IdleH /\ IdleN /\ IdleW
SpecTrust == InitSpecTrust /\ [][NextLT]_vars

InitSpecVerify == IdleDL /\ IdleHL /\ IdleLT /\ InitV /\ IdleR /\ IdleC /\ IdleF /\ IdleE /\ IdleK /\ IdleZ /\ IdleG /\ IdleP /\ IdleX /\ IdleH /\ IdleN /\ IdleW
SpecVerify == InitSpecVerify /\ [][NextV]_vars

InitSpecRepo == IdleDL /\ IdleHL /\ IdleLT /\ IdleV /\ InitR /\ IdleC /\ IdleF /\ IdleE /\ IdleK /\ IdleZ /\ IdleG /\ IdleP /\ IdleX /\ IdleH /\ IdleN /\ IdleW
SpecRepo == InitSpecRepo /\ [][NextR]_vars

InitSpecCompose == IdleDL /\ IdleHL /\ IdleLT /\ IdleV /\ IdleR /\ InitC /\ IdleF /\ IdleE /\ IdleK /\ IdleZ /\ IdleG /\ IdleP /\ IdleX /\ IdleH /\ IdleN /\ IdleW
SpecCompose == InitSpecCompose /\ [][NextC]_vars

InitSpecFetch == IdleDL /\ IdleHL /\ IdleLT /\ IdleV /\ IdleR /\ IdleC /\ InitF /\ IdleE /\ IdleK /\ IdleZ /\ IdleG /\ IdleP /\ IdleX /\ IdleH /\ IdleN /\ IdleW
SpecFetch == InitSpecFetch /\ [][NextF]_vars
InitSpecRetention == IdleDL /\ IdleHL /\ IdleLT /\ IdleV /\ IdleR /\ IdleC /\ IdleF /\ InitE /\ IdleK /\ IdleZ /\ IdleG /\ IdleP /\ IdleX /\ IdleH /\ IdleN /\ IdleW
SpecRetention == InitSpecRetention /\ [][NextE]_vars
InitSpecCollect == IdleDL /\ IdleHL /\ IdleLT /\ IdleV /\ IdleR /\ IdleC /\ IdleF /\ IdleE /\ InitK /\ IdleZ /\ IdleG /\ IdleP /\ IdleX /\ IdleH /\ IdleN /\ IdleW
SpecCollect == InitSpecCollect /\ [][NextK]_vars
InitSpecAptCompose == IdleDL /\ IdleHL /\ IdleLT /\ IdleV /\ IdleR /\ IdleC /\ IdleF /\ IdleE /\ IdleK /\ InitZ /\ IdleG /\ IdleP /\ IdleX /\ IdleH /\ IdleN /\ IdleW
SpecAptCompose == InitSpecAptCompose /\ [][NextZ]_vars
InitSpecGenerate == IdleDL /\ IdleHL /\ IdleLT /\ IdleV /\ IdleR /\ IdleC /\ IdleF /\ IdleE /\ IdleK /\ IdleZ /\ InitG /\ IdleP /\ IdleX /\ IdleH /\ IdleN /\ IdleW
SpecGenerate == InitSpecGenerate /\ [][NextG]_vars
InitSpecPool == IdleDL /\ IdleHL /\ IdleLT /\ IdleV /\ IdleR /\ IdleC /\ IdleF /\ IdleE /\ IdleK /\ IdleZ /\ IdleG /\ InitP /\ IdleX /\ IdleH /\ IdleN /\ IdleW
SpecPool == InitSpecPool /\ [][NextP]_vars
InitSpecCancel == IdleDL /\ IdleHL /\ IdleLT /\ IdleV /\ IdleR /\ IdleC /\ IdleF /\ IdleE /\ IdleK /\ IdleZ /\ IdleG /\ IdleP /\ InitX /\ IdleH /\ IdleN /\ IdleW
SpecDLFair == InitSpecDL /\ [][NextDL]_vars /\ WF_vars(DedupStep)
SpecCancel == InitSpecCancel /\ [][NextX]_vars /\ WF_vars(RequestStep)
InitSpecGithub == IdleDL /\ IdleHL /\ IdleLT /\ IdleV /\ IdleR /\ IdleC /\ IdleF /\ IdleE /\ IdleK /\ IdleZ /\ IdleG /\ IdleP /\ IdleX /\ InitH /\ IdleN /\ IdleW
SpecGithub == InitSpecGithub /\ [][NextH]_vars
InitSpecGenDist == IdleDL /\ IdleHL /\ IdleLT /\ IdleV /\ IdleR /\ IdleC /\ IdleF /\ IdleE /\ IdleK /\ IdleZ /\ IdleG /\ IdleP /\ IdleX /\ IdleH /\ InitN /\ IdleW
SpecGenDist == InitSpecGenDist /\ [][NextN]_vars
InitSpecDownloadPool == IdleDL /\ IdleHL /\ IdleLT /\ IdleV /\ IdleR /\ IdleC /\ IdleF /\ IdleE /\ IdleK /\ IdleZ /\ IdleG /\ IdleP /\ IdleX /\ IdleH /\ IdleN /\ InitW
SpecDownloadPool == InitSpecDownloadPool /\ [][NextW]_vars
====
